---- MODULE Spec2Model ----
(***************************************************************************)
(* Orchestration core of the storyboard studio: the scene tree of one      *)
(* Generation (imageSet with isCameraAngleFor back-references, the         *)
(* index-aligned videoStates) with its asynchronous handlers, and the      *)
(* retry policy withRetry.                                                 *)
(*                                                                         *)
(* Indices are the JavaScript ones (0-based): scene i of the code is       *)
(* imageSet[i + 1] here.                                                   *)
(***************************************************************************)
EXTENDS Integers, Sequences, FiniteSets, Bags, TLC

VARIABLES
    hasItem,            \* generationHistory holds the Generation
    imageSet,           \* its scenes
    videoStates,        \* its video states
    selectedSceneIndex, \* GenerationResultItem's selected scene
    pending,            \* bag of handler invocations suspended at their await
    jobs,               \* number of asynchronous handler invocations started
    crashed,            \* a state updater or a render threw a TypeError
    last,               \* the structural update made by the latest step, if any
    svc                 \* the service invocation in progress (withRetry, a pipeline, a video job)

treeVars == <<hasItem, imageSet, videoStates, selectedSceneIndex, pending, jobs, crashed, last>>
vars == <<hasItem, imageSet, videoStates, selectedSceneIndex, pending, jobs, crashed, last, svc>>

----------------------------------------------------------------------------
(* Bounds of the model *)
MaxScenes == 5     \* scenes of the Generation
MaxJobs == 2       \* asynchronous handler invocations started in a run
MaxPending == 1    \* invocations suspended at the same time

----------------------------------------------------------------------------
(* Scene and VideoState values *)

NoParent == -1      \* isCameraAngleFor === undefined
NullSrc == 0        \* src === null (or undefined)
ImageSrc == 1       \* src is an image payload

Scene(src, par) == [src |-> src, par |-> par, isGeneratingAngles |-> FALSE, hole |-> FALSE]

\* an empty slot of a sparse array (reads as undefined)
Hole == [src |-> NullSrc, par |-> NoParent, isGeneratingAngles |-> FALSE, hole |-> TRUE]

getInitialVideoState == [status |-> "idle", clips |-> 0]

\* videoStates[i] read past the end and pushed: undefined
UndefinedVideo == [status |-> "undefined", clips |-> 0]

Min(a, b) == IF a < b THEN a ELSE b

\* JavaScript arr[i]: undefined outside the array and on a hole
Defined(s, i) == i >= 0 /\ i < Len(s) /\ ~s[i + 1].hole
VideoDefined(vs, i) == i >= 0 /\ i < Len(vs) /\ vs[i + 1].status # "undefined"

\* arr.splice(start, 0, ...items): start is clamped to the length
Splice(s, start, items) ==
    LET st == Min(start, Len(s))
    IN SubSeq(s, 1, st) \o items \o SubSeq(s, st + 1, Len(s))

\* arr[i] = v: past the end the array grows and the skipped slots are holes
SetAt(s, i, v) ==
    IF i < Len(s) THEN [s EXCEPT ![i + 1] = v]
    ELSE s \o [j \in 1..(i - Len(s)) |-> Hole] \o <<v>>

HasHole(s) == \E j \in 1..Len(s) : s[j].hole

----------------------------------------------------------------------------
(* Camera-angle insertion: the state update of handleConfirmAngleGeneration *)

\* parent references beyond the root are moved up by the number of new scenes
ShiftParents(s, sceneIndex, n) ==
    [j \in 1..Len(s) |->
        IF s[j].par # NoParent /\ s[j].par > sceneIndex
        THEN [s[j] EXCEPT !.par = @ + n]
        ELSE s[j]]

\* newScenes.map(s => ({ ...s, isCameraAngleFor: sceneIndex }))
TagAngles(newScenes, sceneIndex) ==
    [j \in 1..Len(newScenes) |-> [newScenes[j] EXCEPT !.par = sceneIndex]]

\* index at which the new scenes are spliced in
AngleInsertionPoint(s, sceneIndex) == sceneIndex + 1

\* updatedImageSet[sceneIndex] = { ...updatedImageSet[sceneIndex], isGeneratingAngles: false, error: null }
ClearGenerating(s, sceneIndex) ==
    SetAt(s, sceneIndex,
          IF Defined(s, sceneIndex)
          THEN [s[sceneIndex + 1] EXCEPT !.isGeneratingAngles = FALSE]
          ELSE Scene(NullSrc, NoParent))

InsertAngleScenes(s, sceneIndex, newScenes) ==
    ClearGenerating(
        Splice(ShiftParents(s, sceneIndex, Len(newScenes)),
               AngleInsertionPoint(s, sceneIndex),
               TagAngles(newScenes, sceneIndex)),
        sceneIndex)

InsertAngleVideoStates(vs, sceneIndex, n) ==
    Splice(vs, sceneIndex + 1, [j \in 1..n |-> getInitialVideoState])

\* the map callback reads scene.isCameraAngleFor of every slot of the spread copy
AngleUpdateThrows(s) == HasHole(s)

----------------------------------------------------------------------------
(* Scene deletion: the state update of handleDeleteScene *)

\* imageSet.filter(s => s.isCameraAngleFor === p).length (filter skips holes)
ChildCount(s, p) ==
    Cardinality({c \in 0..(Len(s) - 1) : ~s[c + 1].hole /\ s[c + 1].par = p})

InitialIndicesToRemove(s, sceneIndex) ==
    LET parentIndex == s[sceneIndex + 1].par
    IN  {sceneIndex} \cup
        (IF parentIndex # NoParent /\ ChildCount(s, parentIndex) = 1
         THEN {parentIndex} ELSE {})

\* imageSet[index]?.isCameraAngleFor === undefined: also true of a missing slot
ReadsAsRoot(s, index) == ~Defined(s, index) \/ s[index + 1].par = NoParent

FinalIndicesToRemove(s, sceneIndex) ==
    LET initial == InitialIndicesToRemove(s, sceneIndex)
    IN  initial \cup
        {c \in 0..(Len(s) - 1) :
            /\ ~s[c + 1].hole
            /\ s[c + 1].par \in {index \in initial : ReadsAsRoot(s, index)}}

\* old indices that survive, and indexMap
Survivors(n, removed) == {i \in 0..(n - 1) : i \notin removed}
IndexMap(removed, i) == Cardinality({j \in 0..(i - 1) : j \notin removed})
NthSurvivor(n, removed, k) ==
    CHOOSE i \in Survivors(n, removed) : IndexMap(removed, i) = k

\* the parent reference written by the reindexing map
ReindexParent(s, removed, oldParentIndex) ==
    IF oldParentIndex = NoParent THEN NoParent
    ELSE IF oldParentIndex \in removed THEN NoParent
    ELSE IF oldParentIndex < Len(s) THEN IndexMap(removed, oldParentIndex)
    ELSE oldParentIndex

DeleteFromImageSet(s, removed) ==
    [k \in 1..Cardinality(Survivors(Len(s), removed)) |->
        LET old == s[NthSurvivor(Len(s), removed, k - 1) + 1]
        IN  [old EXCEPT !.par = ReindexParent(s, removed, old.par)]]

\* newVideoStates.push(item.videoStates[i]) for every surviving scene index i
DeleteFromVideoStates(vs, n, removed) ==
    [k \in 1..Cardinality(Survivors(n, removed)) |->
        LET i == NthSurvivor(n, removed, k - 1)
        IN  IF i < Len(vs) THEN vs[i + 1] ELSE UndefinedVideo]

\* the reindexing map reads scene.isCameraAngleFor of a surviving empty slot
DeleteUpdateThrows(s, removed) ==
    \E i \in Survivors(Len(s), removed) : s[i + 1].hole

----------------------------------------------------------------------------
(* Extend from last frame: the state update of handleExtendFromLastFrame *)

\* the for loop over the contiguous children after parentIndex
LastChildIndex(s, parentIndex) ==
    LET run == {i \in (parentIndex + 1)..(Len(s) - 1) :
                    \A j \in (parentIndex + 1)..i : s[j + 1].par = parentIndex}
    IN  IF run = {} THEN parentIndex
        ELSE CHOOSE i \in run : \A j \in run : j <= i

ExtendInsertionPoint(s, sceneIndex) == LastChildIndex(s, sceneIndex) + 1

\* parent reference given to the scene made from the last frame
ExtendParent(sceneIndex) == sceneIndex

ExtendImageSet(s, sceneIndex, frame) ==
    Splice(s, ExtendInsertionPoint(s, sceneIndex), <<Scene(frame, ExtendParent(sceneIndex))>>)

ExtendVideoStates(s, vs, sceneIndex) ==
    Splice(vs, ExtendInsertionPoint(s, sceneIndex), <<getInitialVideoState>>)

\* newImageSet[i].isCameraAngleFor on an empty slot of the copy, or the next
\* render's forEach over a copy that now holds undefined
ExtendUpdateThrows(s) == HasHole(s)

----------------------------------------------------------------------------
(* GenerationResultItem: what is rendered and selectable *)

\* imageSet.findIndex(s => s.isCameraAngleFor === undefined), or 0
FirstRootIndex(s) ==
    LET roots == {i \in 0..(Len(s) - 1) : s[i + 1].par = NoParent /\ ~s[i + 1].hole}
    IN  IF roots = {} THEN 0 ELSE CHOOSE i \in roots : \A j \in roots : i <= j

\* findIndex visits empty slots as undefined and reads a property of them
RenderThrows(s) ==
    \E h \in 0..(Len(s) - 1) :
        /\ s[h + 1].hole
        /\ \A i \in 0..(h - 1) : s[i + 1].hole \/ s[i + 1].par # NoParent

\* the effect that resets a selection past the end
SelectionAfter(s, sel) == IF sel >= Len(s) THEN FirstRootIndex(s) ELSE sel

\* "No scenes to display": nothing but the delete-generation button
Blank == ~Defined(imageSet, selectedSceneIndex) \/ ~VideoDefined(videoStates, selectedSceneIndex)

\* sceneTree: roots, and scenes whose parent reference is the index of a root
ThumbnailShown(i) ==
    /\ Defined(imageSet, i)
    /\ \/ imageSet[i + 1].par = NoParent
       \/ /\ Defined(imageSet, imageSet[i + 1].par)
          /\ imageSet[imageSet[i + 1].par + 1].par = NoParent

\* scene.src && !scene.isCameraAngleFor: undefined and 0 are both falsy
AngleButtonShown(scene) ==
    scene.src # NullSrc /\ (scene.par = NoParent \/ scene.par = 0)

----------------------------------------------------------------------------
(* Handlers of the Generation *)

NumAngles == 3      \* selectedAngles: front, back, side

HasItem == hasItem

\* live: generationHistory still holds the item whose id the invocation captured
Op(kind, sceneIndex, k) == [kind |-> kind, live |-> TRUE, idx |-> sceneIndex, k |-> k]

\* ids are Date.now() values: once the item is removed no later item has its id
Orphaned(bag) ==
    LET ops == BagToSet(bag)
        Count(o) == IF o \in ops THEN bag[o] ELSE 0
    IN  [d \in {[op EXCEPT !.live = FALSE] : op \in ops} |->
            Count(d) + Count([d EXCEPT !.live = TRUE])]

\* what the latest step did to the scene sequence
NoEvent == [kind |-> "none", idx |-> 0, n |-> 0]
Event(kind, sceneIndex, n) == [kind |-> kind, idx |-> sceneIndex, n |-> n]

\* outcomes of the image calls of one pipeline run: at most one returns no image
FailureChoices(n) == {{}} \cup {{j} : j \in 1..n}

CanSuspend == BagCardinality(pending) < MaxPending /\ jobs < MaxJobs

\* the n scenes of a storyboard: position j has no image when j is in failed
FreshScenes(n, failed, par) ==
    [j \in 1..n |->
        IF j \in failed THEN Scene(NullSrc, par)
        ELSE Scene(ImageSrc, par)]

\* a TypeError thrown by the state update or by the render that follows it:
\* nothing is committed and the application is unmounted
Crash(event) ==
    /\ crashed' = TRUE
    /\ last' = event
    /\ UNCHANGED <<hasItem, imageSet, videoStates, selectedSceneIndex>>

\* a state update followed by the render of GenerationResultItem
Commit(s2, v2, event) ==
    IF RenderThrows(s2) THEN Crash(event)
    ELSE /\ imageSet' = s2
         /\ videoStates' = v2
         /\ selectedSceneIndex' = SelectionAfter(s2, selectedSceneIndex)
         /\ last' = event
         /\ UNCHANGED <<hasItem, crashed>>

handleGenerateImage(n, failed) ==
    /\ ~crashed /\ ~HasItem
    /\ hasItem' = TRUE
    /\ imageSet' = FreshScenes(n, failed, NoParent)
    /\ videoStates' = [j \in 1..n |-> getInitialVideoState]
    /\ selectedSceneIndex' = 0
    /\ UNCHANGED <<pending, jobs, crashed, svc>>
    /\ last' = Event("generate", 0, n)

handleSelectScene(i) ==
    /\ ~crashed /\ HasItem /\ ~Blank
    /\ ThumbnailShown(i)
    /\ selectedSceneIndex' = i
    /\ UNCHANGED <<hasItem, imageSet, videoStates, pending, jobs, crashed, svc>>
    /\ last' = NoEvent

\* handleConfirmAngleGeneration up to its await
StartAngleGeneration(i, k) ==
    /\ ~crashed /\ HasItem /\ ~Blank
    /\ ThumbnailShown(i)
    /\ AngleButtonShown(imageSet[i + 1])
    /\ ~imageSet[i + 1].isGeneratingAngles
    /\ CanSuspend
    /\ imageSet' = [imageSet EXCEPT ![i + 1].isGeneratingAngles = TRUE]
    /\ pending' = pending (+) SetToBag({Op("angles", i, k)})
    /\ UNCHANGED <<hasItem, videoStates, selectedSceneIndex, crashed, svc>>
    /\ last' = NoEvent
    /\ jobs' = jobs + 1

\* generateCameraAnglesFromImage resolved with op.k scenes
AnglesResolved(op, failed) ==
    /\ ~crashed
    /\ BagIn(op, pending) /\ op.kind = "angles"
    /\ pending' = pending (-) SetToBag({op})
    /\ IF ~op.live
       THEN last' = NoEvent /\ UNCHANGED <<hasItem, imageSet, videoStates, selectedSceneIndex, crashed>>
       ELSE /\ Len(imageSet) + op.k <= MaxScenes
            /\ IF AngleUpdateThrows(imageSet) THEN Crash(Event("angles", op.idx, op.k))
               ELSE Commit(InsertAngleScenes(imageSet, op.idx, FreshScenes(op.k, failed, NoParent)),
                           InsertAngleVideoStates(videoStates, op.idx, op.k),
                           Event("angles", op.idx, op.k))
    /\ UNCHANGED <<jobs, svc>>

\* generateCameraAnglesFromImage rejected
AnglesRejected(op) ==
    /\ ~crashed
    /\ BagIn(op, pending) /\ op.kind = "angles"
    /\ pending' = pending (-) SetToBag({op})
    /\ imageSet' = IF op.live /\ Defined(imageSet, op.idx)
                   THEN [imageSet EXCEPT ![op.idx + 1].isGeneratingAngles = FALSE]
                   ELSE imageSet
    /\ UNCHANGED <<hasItem, videoStates, selectedSceneIndex, jobs, crashed, svc>>
    /\ last' = NoEvent

\* newVideoStates[sceneIndex] = { ...newVideoStates[sceneIndex], ...changes }
handleVideoStateChange(vs, sceneIndex, status, clips) ==
    IF VideoDefined(vs, sceneIndex)
    THEN [vs EXCEPT ![sceneIndex + 1] = [status |-> status, clips |-> clips]]
    ELSE vs

\* handleConfirmGenerateVideo up to its await, on the selected scene
StartVideoGeneration ==
    /\ ~crashed /\ HasItem /\ ~Blank
    /\ imageSet[selectedSceneIndex + 1].src # NullSrc
    /\ videoStates[selectedSceneIndex + 1].status # "loading"
    /\ CanSuspend
    /\ videoStates' = handleVideoStateChange(videoStates, selectedSceneIndex, "loading",
                                             videoStates[selectedSceneIndex + 1].clips)
    /\ pending' = pending (+) SetToBag({Op("video", selectedSceneIndex, 0)})
    /\ UNCHANGED <<hasItem, imageSet, selectedSceneIndex, crashed, svc>>
    /\ last' = NoEvent
    /\ jobs' = jobs + 1

VideoResolved(op) ==
    /\ ~crashed
    /\ BagIn(op, pending) /\ op.kind = "video"
    /\ pending' = pending (-) SetToBag({op})
    /\ videoStates' = IF op.live
                      THEN handleVideoStateChange(videoStates, op.idx, "success", 1)
                      ELSE videoStates
    /\ UNCHANGED <<hasItem, imageSet, selectedSceneIndex, jobs, crashed, svc>>
    /\ last' = NoEvent

VideoRejected(op) ==
    /\ ~crashed
    /\ BagIn(op, pending) /\ op.kind = "video"
    /\ pending' = pending (-) SetToBag({op})
    /\ videoStates' = IF op.live /\ VideoDefined(videoStates, op.idx)
                      THEN handleVideoStateChange(videoStates, op.idx, "error",
                                                  videoStates[op.idx + 1].clips)
                      ELSE videoStates
    /\ UNCHANGED <<hasItem, imageSet, selectedSceneIndex, jobs, crashed, svc>>
    /\ last' = NoEvent

\* handleExtendFromLastFrame up to its await, on the selected scene
StartExtend ==
    /\ ~crashed /\ HasItem /\ ~Blank
    /\ videoStates[selectedSceneIndex + 1].status = "success"
    /\ videoStates[selectedSceneIndex + 1].clips > 0
    /\ CanSuspend
    /\ pending' = pending (+) SetToBag({Op("extend", selectedSceneIndex, 0)})
    /\ UNCHANGED <<hasItem, imageSet, videoStates, selectedSceneIndex, crashed, svc>>
    /\ last' = NoEvent
    /\ jobs' = jobs + 1

\* extractFrameAsBase64 resolved
ExtendResolved(op) ==
    /\ ~crashed
    /\ BagIn(op, pending) /\ op.kind = "extend"
    /\ pending' = pending (-) SetToBag({op})
    /\ IF ~op.live
       THEN last' = NoEvent /\ UNCHANGED <<hasItem, imageSet, videoStates, selectedSceneIndex, crashed>>
       ELSE /\ Len(imageSet) + 1 <= MaxScenes
            /\ IF ExtendUpdateThrows(imageSet) THEN Crash(Event("extend", op.idx, 1))
               ELSE Commit(ExtendImageSet(imageSet, op.idx, ImageSrc),
                           ExtendVideoStates(imageSet, videoStates, op.idx),
                           Event("extend", op.idx, 1))
    /\ UNCHANGED <<jobs, svc>>

\* extractFrameAsBase64 rejected
ExtendRejected(op) ==
    /\ ~crashed
    /\ BagIn(op, pending) /\ op.kind = "extend"
    /\ pending' = pending (-) SetToBag({op})
    /\ UNCHANGED <<hasItem, imageSet, videoStates, selectedSceneIndex, jobs, crashed, svc>>
    /\ last' = NoEvent

\* handleDeleteScene with the confirmation accepted
handleDeleteScene(sceneIndex) ==
    /\ ~crashed /\ HasItem /\ ~Blank
    /\ ThumbnailShown(sceneIndex)
    /\ LET removed == FinalIndicesToRemove(imageSet, sceneIndex)
           s2 == DeleteFromImageSet(imageSet, removed)
           v2 == DeleteFromVideoStates(videoStates, Len(imageSet), removed)
       IN  IF DeleteUpdateThrows(imageSet, removed)
           THEN Crash(Event("delete", sceneIndex, Cardinality(removed))) /\ UNCHANGED pending
           ELSE IF Len(s2) = 0
           THEN /\ hasItem' = FALSE
                /\ imageSet' = <<>>
                /\ videoStates' = <<>>
                /\ selectedSceneIndex' = 0
                /\ pending' = Orphaned(pending)
                /\ last' = Event("delete", sceneIndex, Cardinality(removed))
                /\ UNCHANGED crashed
           ELSE Commit(s2, v2, Event("delete", sceneIndex, Cardinality(removed))) /\ UNCHANGED pending
    /\ UNCHANGED <<jobs, svc>>

handleDeleteGeneration ==
    /\ ~crashed /\ HasItem
    /\ hasItem' = FALSE
    /\ imageSet' = <<>>
    /\ videoStates' = <<>>
    /\ selectedSceneIndex' = 0
    /\ pending' = Orphaned(pending)
    /\ last' = NoEvent
    /\ UNCHANGED <<jobs, crashed, svc>>

PendingOps == BagToSet(pending)

TreeInit ==
    /\ hasItem = FALSE
    /\ imageSet = <<>>
    /\ videoStates = <<>>
    /\ selectedSceneIndex = 0
    /\ pending = EmptyBag
    /\ jobs = 0
    /\ crashed = FALSE
    /\ last = NoEvent

TreeNext ==
    \/ \E n \in 1..MaxScenes : \E failed \in FailureChoices(n) : handleGenerateImage(n, failed)
    \/ \E i \in 0..(Len(imageSet) - 1) : handleSelectScene(i)
    \/ \E i \in 0..(Len(imageSet) - 1) : \E k \in 1..NumAngles : StartAngleGeneration(i, k)
    \/ \E op \in PendingOps : \E failed \in FailureChoices(op.k) : AnglesResolved(op, failed)
    \/ \E op \in PendingOps : AnglesRejected(op)
    \/ StartVideoGeneration
    \/ \E op \in PendingOps : VideoResolved(op)
    \/ \E op \in PendingOps : VideoRejected(op)
    \/ StartExtend
    \/ \E op \in PendingOps : ExtendResolved(op)
    \/ \E op \in PendingOps : ExtendRejected(op)
    \/ \E i \in 0..(Len(imageSet) - 1) : handleDeleteScene(i)
    \/ handleDeleteGeneration

----------------------------------------------------------------------------
(* withRetry *)

maxRetries == 3

\* An error message is modelled by the set of the words it contains.
ErrorMessages == {{"503"}, {"429"}, {"overloaded"}, {"Overloaded"}, {"400"}, {}}

\* errorMessage.includes(word)
Includes(errorMessage, word) == word \in errorMessage

\* errorMessage.toLowerCase()
ToLowerCase(errorMessage) ==
    {CASE w = "Overloaded" -> "overloaded"
       [] w = "Quota" -> "quota"
       [] w = "UNAVAILABLE" -> "unavailable"
       [] w = "RESOURCE_EXHAUSTED" -> "resource_exhausted"
       [] OTHER -> w : w \in errorMessage}

isRetryableAny(errorMessage) == TRUE

isRetryable(errorMessage) ==
    \/ Includes(errorMessage, "503")
    \/ Includes(ToLowerCase(errorMessage), "overloaded")
    \/ Includes(errorMessage, "429")

RECURSIVE Pow(_, _)
\* Math.pow(b, e) for a natural exponent
Pow(b, e) == IF e = 0 THEN 1 ELSE b * Pow(b, e - 1)

delaySecondsLinear(attempt) == attempt * 15

delaySeconds(attempt) == Pow(2, attempt) * 15

\* the values apiCall may resolve with
Values == {"a", "b"}

\* what one invocation of apiCall settles with
Resolves(v) == [kind |-> "value", value |-> v, message |-> {}]
Rejects(m) == [kind |-> "error", value |-> "", message |-> m]
Outcomes == {Resolves(v) : v \in Values} \cup {Rejects(m) : m \in ErrorMessages}

\* the error object thrown by the n-th invocation of apiCall
ThrownError(message, n) == [message |-> message, thrownBy |-> n]
NoError == [message |-> {}, thrownBy |-> -1]
\* new Error("API call failed after multiple retries.")
TerminalError == [message |-> {"API call failed after multiple retries."}, thrownBy |-> 0]

retryMsg(attempt, sink) ==
    [delaySeconds |-> delaySeconds(attempt), attempt |-> attempt, maxRetries |-> maxRetries, to |-> sink]

RetryIdle == [pc |-> "idle"]

\* withRetry(apiCall, onRetryMessage) has been called: attempt = 0
RetryStart(onRetryMessage) ==
    [pc |-> "loop", attempt |-> 0, onRetryMessage |-> onRetryMessage,
     outcomes |-> <<>>, waits |-> <<>>, retryMessages |-> <<>>,
     result |-> "", error |-> NoError]

\* the head of the while loop and, inside it, the awaited apiCall()
apiCall(outcome) ==
    /\ svc.pc = "loop"
    /\ IF svc.attempt < maxRetries
       THEN LET n == Len(svc.outcomes) + 1
            IN  svc' = IF outcome.kind = "value"
                      THEN [svc EXCEPT !.outcomes = Append(@, outcome),
                                      !.pc = "resolved", !.result = outcome.value]
                      ELSE [svc EXCEPT !.outcomes = Append(@, outcome),
                                      !.pc = "catch",
                                      !.error = ThrownError(outcome.message, n)]
       ELSE svc' = [svc EXCEPT !.pc = "rejected", !.error = TerminalError]
    /\ UNCHANGED treeVars

\* the catch block up to the await of delay, or the rethrow
catchError ==
    /\ svc.pc = "catch"
    /\ LET attempt == svc.attempt + 1
       IN  svc' = IF isRetryable(svc.error.message) /\ attempt < maxRetries
                 THEN [svc EXCEPT !.attempt = attempt,
                                 !.retryMessages = Append(@, retryMsg(attempt,
                                     IF svc.onRetryMessage THEN "onRetryMessage" ELSE "console")),
                                 !.waits = Append(@, delaySeconds(attempt)),
                                 !.pc = "delay"]
                 ELSE [svc EXCEPT !.attempt = attempt, !.pc = "rejected"]
    /\ UNCHANGED treeVars

\* the timer of delay(delaySeconds * 1000) fires
delay ==
    /\ svc.pc = "delay"
    /\ svc' = [svc EXCEPT !.pc = "loop"]
    /\ UNCHANGED treeVars

RetryInit == TreeInit /\ svc \in {RetryStart(cb) : cb \in BOOLEAN}

RetryNext ==
    \/ \E outcome \in Outcomes : apiCall(outcome)
    \/ catchError
    \/ delay

\* the event loop runs every continuation and timer that is due, and the
\* awaited apiCall settles
SpecRetry == RetryInit /\ [][RetryNext]_vars /\ WF_vars(RetryNext)


----------------------------------------------------------------------------
(* parseErrorMessage *)

\* the word "{json}" marks a message that is a JSON text with error.message;
\* the other words are then those of error.message
JsonEnvelope == "{json}"

Normalised(text, words) == [text |-> text, words |-> words]

HasNestedMessageNever(message) == FALSE

\* JSON.parse(error.message) succeeds and parsed.error.message is truthy
HasNestedMessage(message) == JsonEnvelope \in message /\ message \ {JsonEnvelope} # {}

parseErrorMessageRaw(message) == Normalised("", message)

parseErrorMessage(message) ==
    LET inner == message \ {JsonEnvelope}
        low == ToLowerCase(message)
    IN  IF HasNestedMessage(message)
        THEN IF "quota" \in ToLowerCase(inner)
             THEN Normalised("Quota exceeded. ", inner)
             ELSE Normalised("", inner)
        ELSE IF "api key not valid" \in low
        THEN Normalised("Invalid API Key.", {})
        ELSE IF low \cap {"blocked", "safety"} # {}
        THEN Normalised("Your prompt was blocked due to the content policy.", {})
        ELSE IF low \cap {"429", "resource_exhausted", "rate limit"} # {}
        THEN Normalised("You've exceeded your quota.", {})
        ELSE IF low \cap {"503", "unavailable", "overloaded"} # {}
        THEN Normalised("The model is temporarily unavailable or overloaded.", {})
        ELSE IF "requested entity was not found" \in low
        THEN Normalised("API Key error.", {})
        ELSE IF message # {}
        THEN Normalised("", message)
        ELSE Normalised("An unexpected error occurred.", {})

defaultMessage == Normalised("An unexpected error occurred.", {})

\* a thrown value: an Error with its message, or anything else
Thrown(message) == [instanceOfError |-> TRUE, message |-> message]
NotAnError == [instanceOfError |-> FALSE, message |-> {}]

\* parseErrorMessage(error: unknown), from its first line
parseThrown(error) ==
    IF ~error.instanceOfError THEN defaultMessage ELSE parseErrorMessage(error.message)

MaxWords == 2

\* the words a backend message is made of
Words ==
    {JsonEnvelope, "api key not valid", "blocked", "safety", "429",
     "resource_exhausted", "RESOURCE_EXHAUSTED", "rate limit", "503",
     "unavailable", "UNAVAILABLE", "overloaded", "Overloaded",
     "requested entity was not found", "quota", "Quota", "400"}

BackendMessages == {m \in SUBSET Words : Cardinality(m) <= MaxWords}

ThrownValues == {Thrown(m) : m \in BackendMessages} \cup {NotAnError}

\* a catch block holding a thrown value, and the text it then shows
Caught(error) == [pc |-> "caught", error |-> error, shown |-> Normalised("", {})]

showError ==
    /\ svc.pc = "caught"
    /\ svc' = [svc EXCEPT !.pc = "shown", !.shown = parseThrown(svc.error)]
    /\ UNCHANGED treeVars

NormalizerInit == TreeInit /\ svc \in {Caught(e) : e \in ThrownValues}

NormalizerNext == showError

SpecNormalizer == NormalizerInit /\ [][NormalizerNext]_vars /\ WF_vars(NormalizerNext)

----------------------------------------------------------------------------
(* generateVideoFromScene *)

MaxPolls == 2      \* status fetches that still report the job as running

\* withRetry after a failed invocation: the call is invoked again
RetriesAfter(attempt, errorMessage) ==
    isRetryable(errorMessage) /\ attempt + 1 < maxRetries

\* audioOptions: null, an uploaded payload, or text for generateSpeech
AudioModes == {"none", "upload", "tts"}

\* the job object: done, error, response.generatedVideos[0].video.uri
Operations == [done : BOOLEAN, error : BOOLEAN, uri : BOOLEAN]
NoOperation == [done |-> FALSE, error |-> FALSE, uri |-> FALSE]

\* messages of the errors a remote call is rejected with
CallFailures == {{"503"}, {"429"}, {"400"}}

\* videoResponse.status
Statuses == {"200", "403", "404", "503"}
ResponseOk(status) == status = "200"

\* the error generateVideoFromScene rejects with: the call it came from, its
\* message, and how often that call had been invoked
VideoError(from, message, invocations) ==
    [from |-> from, message |-> message, invocations |-> invocations]
NoVideoError == VideoError("none", {}, 0)

\* while (!operation.done)
PollAgain(operation) == ~operation.done

\* operation.response?.generatedVideos?.[0]?.video with its uri
HasDownloadLinkAny(operation) == TRUE

HasDownloadLink(operation) == operation.uri

AudioSettledAny(audio) == TRUE

\* audioDataPromise is settled
AudioSettled(audio) == audio # "running"

NoSpeechError == Normalised("null", {})

\* new Error(`TTS generation failed: ${parseErrorMessage(err)}`)
SpeechError(errorMessage) ==
    LET parsed == parseErrorMessage(errorMessage)
    IN  Normalised("TTS generation failed: " \o parsed.text, parsed.words)

\* the state at the first await: audioDataPromise has been started
VideoStart(audioMode) ==
    [pc |-> "submit", attempt |-> 0,
     audio |-> IF audioMode = "tts" THEN "running" ELSE "settled",
     audioUrl |-> audioMode = "upload",
     operation |-> NoOperation, fetched |-> 0, polls |-> 0, slept |-> FALSE,
     status |-> "", joined |-> FALSE, submitted |-> FALSE,
     speechError |-> NoSpeechError,
     error |-> NoVideoError]

\* the position after a job object has been received
AfterOperation(operation) == IF PollAgain(operation) THEN "sleep" ELSE "finalize"

\* a call made through withRetry was rejected with errorMessage
WrappedCallFails(s, from, retryPc, errorMessage) ==
    IF RetriesAfter(s.attempt, errorMessage)
    THEN [s EXCEPT !.attempt = @ + 1, !.pc = retryPc]
    ELSE [s EXCEPT !.attempt = @ + 1, !.pc = "rejected",
                   !.error = VideoError(from, errorMessage, s.attempt + 1)]

\* withRetry(() => ai.models.generateVideos(...)) resolves with a job object
generateVideos(operation) ==
    /\ svc.pc = "submit"
    /\ svc' = [svc EXCEPT !.submitted = TRUE, !.attempt = 0, !.operation = operation,
                          !.pc = AfterOperation(operation)]
    /\ UNCHANGED treeVars

generateVideosFails(errorMessage) ==
    /\ svc.pc = "submit"
    /\ svc' = WrappedCallFails([svc EXCEPT !.submitted = TRUE], "generateVideos",
                               "submitRetry", errorMessage)
    /\ UNCHANGED treeVars

\* the delay inside withRetry elapses
retryDelay ==
    /\ svc.pc \in {"submitRetry", "pollRetry"}
    /\ svc' = [svc EXCEPT !.pc = IF svc.pc = "submitRetry" THEN "submit" ELSE "poll"]
    /\ UNCHANGED treeVars

\* await delay(10000)
pollSleep ==
    /\ svc.pc = "sleep"
    /\ svc' = [svc EXCEPT !.pc = "poll", !.slept = TRUE]
    /\ UNCHANGED treeVars

\* withRetry(() => ai.operations.getVideosOperation(...)) resolves
getVideosOperation(operation) ==
    /\ svc.pc = "poll"
    /\ PollAgain(operation) => svc.fetched + 1 < MaxPolls
    /\ svc' = [svc EXCEPT !.polls = @ + 1, !.fetched = @ + 1, !.attempt = 0,
                          !.slept = FALSE, !.operation = operation,
                          !.pc = AfterOperation(operation)]
    /\ UNCHANGED treeVars

getVideosOperationFails(errorMessage) ==
    /\ svc.pc = "poll"
    /\ svc' = WrappedCallFails([svc EXCEPT !.polls = @ + 1], "getVideosOperation",
                               "pollRetry", errorMessage)
    /\ UNCHANGED treeVars

\* after the loop: operation.error, then the video object and its uri
finalizeVideo ==
    /\ svc.pc = "finalize"
    /\ svc' = IF svc.operation.error
              THEN [svc EXCEPT !.pc = "rejected", !.error = VideoError("job", {"error"}, 0)]
              ELSE IF ~HasDownloadLink(svc.operation)
              THEN [svc EXCEPT !.pc = "rejected", !.error = VideoError("job", {"no video"}, 0)]
              ELSE [svc EXCEPT !.pc = "download"]
    /\ UNCHANGED treeVars

\* fetch(downloadUrl) and the test of videoResponse.ok
fetchVideo(status) ==
    /\ svc.pc = "download"
    /\ svc' = IF ResponseOk(status)
              THEN [svc EXCEPT !.status = status, !.pc = "join"]
              ELSE [svc EXCEPT !.status = status, !.pc = "rejected",
                               !.error = VideoError("fetch", {status}, 1)]
    /\ UNCHANGED treeVars

\* await audioDataPromise, then return
joinAudio ==
    /\ svc.pc = "join"
    /\ AudioSettled(svc.audio)
    /\ svc' = [svc EXCEPT !.joined = TRUE, !.pc = "resolved"]
    /\ UNCHANGED treeVars

\* generateSpeech resolves inside audioDataPromise, with audio data or null
generateSpeechSettles(ok) ==
    /\ svc.audio = "running"
    /\ svc' = [svc EXCEPT !.audio = "settled", !.audioUrl = ok]
    /\ UNCHANGED treeVars

\* the speech call fails out of withRetry: generateSpeech throws the labelled
\* error, and the catch of audioDataPromise continues without audio
generateSpeechFails(errorMessage) ==
    /\ svc.audio = "running"
    /\ svc' = [svc EXCEPT !.audio = "settled", !.audioUrl = FALSE,
                          !.speechError = SpeechError(errorMessage)]
    /\ UNCHANGED treeVars

VideoInit == TreeInit /\ svc \in {VideoStart(m) : m \in AudioModes}

VideoStep ==
    \/ \E operation \in Operations : generateVideos(operation)
    \/ \E m \in CallFailures : generateVideosFails(m)
    \/ retryDelay
    \/ pollSleep
    \/ \E operation \in Operations : getVideosOperation(operation)
    \/ \E m \in CallFailures : getVideosOperationFails(m)
    \/ finalizeVideo
    \/ \E status \in Statuses : fetchVideo(status)
    \/ joinAudio

VideoNext ==
    \/ VideoStep
    \/ \E ok \in BOOLEAN : generateSpeechSettles(ok)
    \/ \E m \in CallFailures : generateSpeechFails(m)

\* every pending continuation and timer is run, and every remote call settles
SpecVideo == VideoInit /\ [][VideoNext]_vars /\ WF_vars(VideoStep) /\ WF_vars(VideoNext)

----------------------------------------------------------------------------
(* generateImageSet and handleGenerateImage *)

MaxCount == 3      \* imageCount, and the length of a returned prompt list

pauseSeconds == 15

\* what the breakdown call ends with: an error out of withRetry, a text that
\* is no JSON, an object whose prompts is missing or no array, or a list
Breakdowns ==
    {[kind |-> "error", n |-> 0, message |-> m] : m \in CallFailures}
    \cup {[kind |-> k, n |-> 0, message |-> {}] : k \in {"badjson", "noprompts", "notarray"}}
    \cup {[kind |-> "list", n |-> n, message |-> {}] : n \in 0..MaxCount}

ValidPromptsAny(breakdown) == TRUE

\* JSON.parse succeeds, and parsed.prompts is a non-empty array
ValidPrompts(breakdown) == breakdown.kind = "list" /\ breakdown.n # 0

\* the message of the error generatePromptsFromBase throws
BreakdownErrorMessage(breakdown) ==
    IF breakdown.kind = "error" THEN breakdown.message
    ELSE IF breakdown.kind = "badjson" THEN {"Unexpected token"}
    ELSE {"AI failed to return a valid array of prompts."}

\* what one generateSingleImage call ends with
ImageOutcomes ==
    {[kind |-> "image", message |-> {}], [kind |-> "noimage", message |-> {}]}
    \cup {[kind |-> "error", message |-> m] : m \in CallFailures}

NoErrorText == Normalised("null", {})
NoImageData == Normalised("The model returned a success status but no image data.", {})

ImageResultNoError(prompt, outcome) ==
    [prompt |-> prompt, src |-> IF outcome.kind = "image" THEN ImageSrc ELSE NullSrc,
     error |-> NoErrorText]

\* scenes.push({ prompt: prompts[i], src, error })
ImageResult(prompt, outcome) ==
    [prompt |-> prompt,
     src |-> IF outcome.kind = "image" THEN ImageSrc ELSE NullSrc,
     error |-> IF outcome.kind = "image" THEN NoErrorText
               ELSE IF outcome.kind = "noimage" THEN NoImageData
               ELSE parseErrorMessage(outcome.message)]

PauseAfterAlways(i, n) == TRUE

\* if (i < prompts.length - 1)
PauseAfter(i, n) == i < n - 1

\* generateImageSet(promptText, imageCount, ...) has been called
PipelineStart(imageCount) ==
    [pc |-> "breakdown", imageCount |-> imageCount, breakdown |-> "none",
     prompts |-> 0, i |-> 0, inFlight |-> 0, calls |-> <<>>, outcomes |-> <<>>,
     scenes |-> <<>>, pauses |-> <<>>, error |-> NoErrorText]

\* generatePromptsFromBase settles
generatePromptsFromBase(breakdown) ==
    /\ svc.pc = "breakdown"
    /\ svc' = IF ValidPrompts(breakdown)
              THEN [svc EXCEPT !.breakdown = breakdown.kind, !.prompts = breakdown.n,
                               !.pc = IF 0 < breakdown.n THEN "image" ELSE "return"]
              ELSE [svc EXCEPT !.breakdown = breakdown.kind, !.pc = "rejected",
                               !.error = parseErrorMessage(BreakdownErrorMessage(breakdown))]
    /\ UNCHANGED treeVars

\* the loop body up to the await of generateSingleImage(prompts[i], ...)
generateSingleImage ==
    /\ svc.pc = "image"
    /\ svc' = [svc EXCEPT !.calls = Append(@, svc.i), !.inFlight = @ + 1, !.pc = "imageAwait"]
    /\ UNCHANGED treeVars

\* generateSingleImage settles: the scene is pushed
imageSettles(outcome) ==
    /\ svc.pc = "imageAwait"
    /\ svc' = [svc EXCEPT !.inFlight = @ - 1,
                          !.outcomes = Append(@, outcome.kind),
                          !.scenes = Append(@, ImageResult(svc.i, outcome)),
                          !.pc = IF PauseAfter(svc.i, svc.prompts) THEN "pause"
                                 ELSE IF svc.i + 1 < svc.prompts THEN "image" ELSE "return",
                          !.i = IF PauseAfter(svc.i, svc.prompts) THEN @ ELSE @ + 1]
    /\ UNCHANGED treeVars

\* await delay(15000), then i++
pauseElapsed ==
    /\ svc.pc = "pause"
    /\ svc' = [svc EXCEPT !.pauses = Append(@, pauseSeconds), !.i = @ + 1,
                          !.pc = IF svc.i + 1 < svc.prompts THEN "image" ELSE "return"]
    /\ UNCHANGED treeVars

\* return { storyboard }
returnStoryboard ==
    /\ svc.pc = "return"
    /\ svc' = [svc EXCEPT !.pc = "resolved"]
    /\ UNCHANGED treeVars

\* handleGenerateImage after its await: the Generation is put into the history
addGeneration ==
    /\ svc.pc = "resolved"
    /\ svc' = [svc EXCEPT !.pc = "done"]
    /\ hasItem' = TRUE
    /\ imageSet' = [j \in 1..Len(svc.scenes) |-> Scene(svc.scenes[j].src, NoParent)]
    /\ videoStates' = [j \in 1..Len(svc.scenes) |-> getInitialVideoState]
    /\ selectedSceneIndex' = 0
    /\ UNCHANGED <<pending, jobs, crashed, last>>

\* handleGenerateImage's catch: only appStatus changes
showGenerationError ==
    /\ svc.pc = "rejected"
    /\ svc' = [svc EXCEPT !.pc = "failed"]
    /\ UNCHANGED treeVars

PipelineInit == TreeInit /\ svc \in {PipelineStart(n) : n \in 1..MaxCount}

PipelineNext ==
    \/ \E breakdown \in Breakdowns : generatePromptsFromBase(breakdown)
    \/ generateSingleImage
    \/ \E outcome \in ImageOutcomes : imageSettles(outcome)
    \/ pauseElapsed
    \/ returnStoryboard
    \/ addGeneration
    \/ showGenerationError

\* every pending continuation and timer is run, and every remote call settles
SpecPipeline == PipelineInit /\ [][PipelineNext]_vars /\ WF_vars(PipelineNext)

----------------------------------------------------------------------------
(* generateCameraAnglesFromImage and the end of handleConfirmAngleGeneration *)

Angles == {"front", "back", "side"}

\* angleNames: the requested angles, each once, in the caller's order
AngleLists ==
    {s \in UNION {[1..n -> Angles] : n \in 1..NumAngles} :
        \A a, b \in DOMAIN s : a # b => s[a] # s[b]}

\* what one editImage call ends with: it never throws
EditOutcomes ==
    {[kind |-> "image", message |-> {}], [kind |-> "noimage", message |-> {}]}
    \cup {[kind |-> "error", message |-> m] : m \in {{"503"}, {"400"}}}

NotEdited == Normalised("The model did not return an edited image.", {})

\* { src, error } of editImage
EditResult(outcome) ==
    [src |-> IF outcome.kind = "image" THEN ImageSrc ELSE NullSrc,
     error |-> IF outcome.kind = "image" THEN NoErrorText
               ELSE IF outcome.kind = "noimage" THEN NotEdited
               ELSE parseErrorMessage(outcome.message)]

ExtendedAny(result) == TRUE

\* !(extensionError || !extendedImageSrc)
Extended(result) == result.error = NoErrorText /\ result.src # NullSrc

anglesToAnalyzeAll(angleNames) == {angleNames[j] : j \in DOMAIN angleNames}

\* angleNames.filter(name => name !== 'front')
anglesToAnalyze(angleNames) == {angleNames[j] : j \in DOMAIN angleNames} \ {"front"}

\* the keys of cameraPrompts once 'front_view_prompt' has been set
WithFrontPrompt(angleNames, cameraPrompts) ==
    cameraPrompts \cup ({angleNames[j] : j \in DOMAIN angleNames} \cap {"front"})

\* where cameraPrompts['front_view_prompt'] comes from: the assignment of the
\* fixed sentence replaces whatever the analysis returned under that key
FrontPrompt(angleNames, cameraPrompts) ==
    IF \E j \in DOMAIN angleNames : angleNames[j] = "front" THEN "canned"
    ELSE IF "front" \in cameraPrompts THEN "analysed"
    ELSE "none"

NoPrompt(angle) == Normalised("AI analysis did not provide a prompt for the view.", {angle})

MissingPromptSceneSilent(angle) ==
    [angle |-> angle, src |-> NullSrc, error |-> NoErrorText]

\* the scene pushed for an angle without an instruction
MissingPromptScene(angle) ==
    [angle |-> angle, src |-> NullSrc, error |-> NoPrompt(angle)]

\* handleConfirmAngleGeneration awaits generateCameraAnglesFromImage for the
\* root at index 0, which is flagged isGeneratingAngles
AnglesStart(angleNames) ==
    [pc |-> "outpaint", angleNames |-> angleNames, calls |-> <<>>,
     outpaint |-> "none", analyzed |-> {}, cameraPrompts |-> {},
     frontPrompt |-> "none", frontEdit |-> "none", i |-> 1, scenes |-> <<>>,
     pauses |-> 0, error |-> NoErrorText]

AnglesTree ==
    /\ hasItem = TRUE
    /\ imageSet = <<[Scene(ImageSrc, NoParent) EXCEPT !.isGeneratingAngles = TRUE]>>
    /\ videoStates = <<getInitialVideoState>>
    /\ selectedSceneIndex = 0
    /\ pending = EmptyBag
    /\ jobs = 0
    /\ crashed = FALSE
    /\ last = NoEvent

\* the position once cameraPrompts is complete: the loop over angleNames
AngleLoop(s) == IF s.i <= Len(s.angleNames) THEN "angle" ELSE "return"

\* step 1: editImage with the outpaint prompt settles
outpaint(outcome) ==
    /\ svc.pc = "outpaint"
    /\ LET s == [svc EXCEPT !.calls = Append(@, "outpaint"), !.outpaint = outcome.kind]
       IN  svc' = IF ~Extended(EditResult(outcome))
                  THEN [s EXCEPT !.pc = "rejected",
                                 !.error = Normalised("Could not extend the base image: ",
                                                      EditResult(outcome).error.words)]
                  ELSE IF anglesToAnalyze(s.angleNames) # {}
                  THEN [s EXCEPT !.pc = "placement"]
                  ELSE [s EXCEPT !.cameraPrompts = WithFrontPrompt(s.angleNames, {}),
                                 !.frontPrompt = FrontPrompt(s.angleNames, {}),
                                 !.pc = AngleLoop(s)]
    /\ UNCHANGED treeVars

\* step 2: analyzeEnvironmentForCameraPlacement is called with the angles to
\* analyse and resolves with the parsed JSON of the model's answer, whose keys
\* the code does not check
analyzeEnvironmentForCameraPlacement(prompts) ==
    /\ svc.pc = "placement"
    /\ svc' = [svc EXCEPT !.calls = Append(@, "placement"),
                          !.analyzed = anglesToAnalyze(svc.angleNames),
                          !.cameraPrompts = WithFrontPrompt(svc.angleNames, prompts),
                          !.frontPrompt = FrontPrompt(svc.angleNames, prompts),
                          !.pc = AngleLoop(svc)]
    /\ UNCHANGED treeVars

\* the placement call fails, or its text is no JSON
analyzeEnvironmentFails(errorMessage) ==
    /\ svc.pc = "placement"
    /\ svc' = [svc EXCEPT !.calls = Append(@, "placement"), !.pc = "rejected",
                          !.analyzed = anglesToAnalyze(svc.angleNames),
                          !.error = parseErrorMessage(errorMessage)]
    /\ UNCHANGED treeVars

\* step 3, an angle without instruction: the failure scene is pushed
skipAngle ==
    /\ svc.pc = "angle"
    /\ svc.angleNames[svc.i] \notin svc.cameraPrompts
    /\ LET s == [svc EXCEPT !.scenes = Append(@, MissingPromptScene(svc.angleNames[svc.i])),
                            !.i = @ + 1]
       IN  svc' = [s EXCEPT !.pc = AngleLoop(s)]
    /\ UNCHANGED treeVars

\* step 3, an angle with its instruction: editImage is called
editAngle ==
    /\ svc.pc = "angle"
    /\ svc.angleNames[svc.i] \in svc.cameraPrompts
    /\ svc' = [svc EXCEPT !.calls = Append(@, svc.angleNames[svc.i]),
                          !.frontEdit = IF svc.angleNames[svc.i] = "front"
                                        THEN svc.frontPrompt ELSE @,
                          !.pc = "angleAwait"]
    /\ UNCHANGED treeVars

\* editImage settles: the scene is pushed, then the pause or the next angle
angleSettles(outcome) ==
    /\ svc.pc = "angleAwait"
    /\ LET r == EditResult(outcome)
           s == [svc EXCEPT !.scenes = Append(@, [angle |-> svc.angleNames[svc.i],
                                                  src |-> r.src, error |-> r.error])]
       IN  svc' = IF PauseAfter(svc.i - 1, Len(svc.angleNames))
                  THEN [s EXCEPT !.pc = "anglePause"]
                  ELSE [s EXCEPT !.i = @ + 1, !.pc = "return"]
    /\ UNCHANGED treeVars

\* await delay(15000), then i++
anglePause ==
    /\ svc.pc = "anglePause"
    /\ LET s == [svc EXCEPT !.pauses = @ + 1, !.i = @ + 1]
       IN  svc' = [s EXCEPT !.pc = AngleLoop(s)]
    /\ UNCHANGED treeVars

\* return generatedScenes
returnAngles ==
    /\ svc.pc = "return"
    /\ svc' = [svc EXCEPT !.pc = "resolved"]
    /\ UNCHANGED treeVars

\* handleConfirmAngleGeneration after the await: the scenes are inserted
insertAngles ==
    /\ svc.pc = "resolved"
    /\ svc' = [svc EXCEPT !.pc = "done"]
    /\ imageSet' = InsertAngleScenes(imageSet, 0,
                       [j \in 1..Len(svc.scenes) |-> Scene(svc.scenes[j].src, NoParent)])
    /\ videoStates' = InsertAngleVideoStates(videoStates, 0, Len(svc.scenes))
    /\ last' = Event("angles", 0, Len(svc.scenes))
    /\ UNCHANGED <<hasItem, selectedSceneIndex, pending, jobs, crashed>>

\* handleConfirmAngleGeneration's catch: the flag is cleared, the error kept
showAngleError ==
    /\ svc.pc = "rejected"
    /\ svc' = [svc EXCEPT !.pc = "failed"]
    /\ imageSet' = [imageSet EXCEPT ![1].isGeneratingAngles = FALSE]
    /\ last' = NoEvent
    /\ UNCHANGED <<hasItem, videoStates, selectedSceneIndex, pending, jobs, crashed>>

AnglesInit == AnglesTree /\ svc \in {AnglesStart(a) : a \in AngleLists}

AnglesNext ==
    \/ \E outcome \in EditOutcomes : outpaint(outcome)
    \/ \E prompts \in SUBSET Angles : analyzeEnvironmentForCameraPlacement(prompts)
    \/ \E m \in CallFailures \cup {{"AI failed to return a valid camera placement plan."}} :
            analyzeEnvironmentFails(m)
    \/ skipAngle
    \/ editAngle
    \/ \E outcome \in EditOutcomes : angleSettles(outcome)
    \/ anglePause
    \/ returnAngles
    \/ insertAngles
    \/ showAngleError

\* every pending continuation and timer is run, and every remote call settles
SpecAngles == AnglesInit /\ [][AnglesNext]_vars /\ WF_vars(AnglesNext)

----------------------------------------------------------------------------
(* the video state of the scenes of one generation: handleGenerateVideoToggle,
   handleConfirmGenerateVideo, handleVideoGenerationError, handleDeleteVideo *)

MaxVideoScenes == 2

\* getInitialVideoState() with the fields the video handlers write
InitialVideoState ==
    [status |-> "idle", clips |-> 0, showScriptInput |-> FALSE, error |-> FALSE]

\* videoState.status !== 'idle' && videoState.status !== 'loading' && !videoState.showScriptInput
showVideoControls(videoState) ==
    videoState.status \notin {"idle", "loading"} /\ ~videoState.showScriptInput

\* job[i]: the position of the handleConfirmGenerateVideo call of scene i;
\* at most one call per scene is in flight
VideoStateStart(aistudio) ==
    [videoStates |-> [i \in 1..MaxVideoScenes |-> InitialVideoState],
     job |-> [i \in 1..MaxVideoScenes |-> "none"],
     aistudio |-> aistudio]

\* the 'Generate Video' and 'Regenerate Video' buttons
handleGenerateVideoToggle(i) ==
    /\ ~svc.videoStates[i].showScriptInput
    /\ svc' = [svc EXCEPT !.videoStates[i].showScriptInput = ~@]
    /\ UNCHANGED treeVars

\* 'Start Generation', up to the await of generateVideoFromScene
handleConfirmGenerateVideo(i) ==
    /\ svc.videoStates[i].showScriptInput
    /\ svc.videoStates[i].status # "loading"
    /\ svc.job[i] = "none"
    /\ svc' = [svc EXCEPT !.videoStates[i].status = "loading",
                          !.videoStates[i].error = FALSE,
                          !.videoStates[i].showScriptInput = FALSE,
                          !.job[i] = "running"]
    /\ UNCHANGED treeVars

\* generateVideoFromScene resolves
videoResolves(i) ==
    /\ svc.job[i] = "running"
    /\ svc' = [svc EXCEPT !.videoStates[i].status = "success",
                          !.videoStates[i].clips = 1,
                          !.job[i] = "none"]
    /\ UNCHANGED treeVars

\* generateVideoFromScene rejects: handleVideoGenerationError up to its await
handleVideoGenerationError(i, notFound) ==
    /\ svc.job[i] = "running"
    /\ svc' = [svc EXCEPT !.videoStates[i].status = "error",
                          !.videoStates[i].error = TRUE,
                          !.job[i] = IF notFound /\ svc.aistudio THEN "selectKey" ELSE "none"]
    /\ UNCHANGED treeVars

\* window.aistudio.openSelectKey() resolves: updateState({ status: 'idle' })
keySelected(i) ==
    /\ svc.job[i] = "selectKey"
    /\ svc' = [svc EXCEPT !.videoStates[i].status = "idle", !.job[i] = "none"]
    /\ UNCHANGED treeVars

\* the reset buttons of the error and the success display
handleDeleteVideo(i) ==
    /\ svc.videoStates[i].status \in {"error", "success"}
    /\ svc' = [svc EXCEPT !.videoStates[i] = InitialVideoState]
    /\ UNCHANGED treeVars

VideoStateInit ==
    /\ TreeInit
    /\ svc \in {VideoStateStart(aistudio) : aistudio \in BOOLEAN}

VideoStateNext ==
    \E i \in 1..MaxVideoScenes :
        \/ handleGenerateVideoToggle(i)
        \/ handleConfirmGenerateVideo(i)
        \/ videoResolves(i)
        \/ \E notFound \in BOOLEAN : handleVideoGenerationError(i, notFound)
        \/ keySelected(i)
        \/ handleDeleteVideo(i)

SpecVideoState == VideoStateInit /\ [][VideoStateNext]_vars /\ WF_vars(VideoStateNext)

----------------------------------------------------------------------------
(* saveItems, loadItems and their callers fetchItems and handleUnsaveScene *)

MaxItems == 3      \* the number of persisted items
MaxTime == 3       \* the latest expiresAt and the latest value of Date.now()

\* a saved item is modelled by its expiresAt; a list of them, newest first
ItemLists == UNION {[1..n -> 1..MaxTime] : n \in 0..MaxItems}

\* items.filter(item => item.expiresAt > now)
ValidItems(items, now) == SelectSeq(items, LAMBDA expiresAt : expiresAt > now)

\* s with the element at index i taken out
RemoveAt(s, i) == SubSeq(s, 1, i - 1) \o SubSeq(s, i + 1, Len(s))

RECURSIVE SortByExpiry(_)
\* currentItems.sort((a, b) => a.expiresAt - b.expiresAt)
SortByExpiry(s) ==
    IF s = <<>> THEN <<>>
    ELSE LET i == CHOOSE k \in DOMAIN s :
                     /\ \A j \in DOMAIN s : s[k] <= s[j]
                     /\ \A j \in 1..(k - 1) : s[j] # s[k]
         IN  <<s[i]>> \o SortByExpiry(RemoveAt(s, i))

EvictNewest(currentItems) == SubSeq(currentItems, 2, Len(currentItems))

\* the sort followed by currentItems.shift()
EvictOldest(currentItems) == Tail(SortByExpiry(currentItems))

\* what one saveData call ends with
SaveOutcomes == {"saved", "quota", "failed"}

\* the application is mounted and nothing is awaited
StoreStart(store, now) ==
    [pc |-> "idle", now |-> now, store |-> store, savedItems |-> <<>>,
     caller |-> "none", items |-> <<>>, currentItems |-> <<>>, attempts |-> 0,
     returned |-> <<>>, newItems |-> <<>>]

\* saveItems(items) up to its loop, on behalf of caller, which then uses
\* newItems
CallSaveItems(s, caller, items, newItems) ==
    [s EXCEPT !.pc = "saveItems", !.caller = caller, !.items = items,
              !.currentItems = items, !.attempts = 0, !.newItems = newItems]

\* the handler ends with setSavedItems(items); its locals are gone
Returned(s, items) ==
    [StoreStart(s.store, s.now) EXCEPT !.savedItems = items]

\* fetchItems: loadItems reads the store and filters it
loadItems ==
    /\ svc.pc = "idle"
    /\ LET validItems == ValidItems(svc.store, svc.now)
       IN  svc' = IF Len(validItems) # Len(svc.store)
                  THEN CallSaveItems(svc, "loadItems", validItems, validItems)
                  ELSE [svc EXCEPT !.pc = "loaded", !.returned = validItems]
    /\ UNCHANGED treeVars

\* handleUnsaveScene: the list without item k is saved
handleUnsaveScene(k) ==
    /\ svc.pc = "idle"
    /\ k \in DOMAIN svc.savedItems
    /\ svc' = CallSaveItems(svc, "handleUnsaveScene", RemoveAt(svc.savedItems, k),
                            RemoveAt(svc.savedItems, k))
    /\ UNCHANGED treeVars

\* one turn of the loop of saveItems: saveData settles
saveData(outcome) ==
    /\ svc.pc = "saveItems"
    /\ svc.currentItems # <<>>
    /\ LET s == [svc EXCEPT !.attempts = @ + 1]
       IN  svc' = IF outcome = "saved"
                  THEN [s EXCEPT !.store = svc.currentItems, !.pc = "saveReturned"]
                  ELSE IF outcome = "quota"
                  THEN [s EXCEPT !.currentItems = EvictOldest(@)]
                  ELSE [s EXCEPT !.pc = "saveReturned"]
    /\ UNCHANGED treeVars

\* the loop ends with no item left: nothing is written
saveNothing ==
    /\ svc.pc = "saveItems"
    /\ svc.currentItems = <<>>
    /\ svc' = [svc EXCEPT !.pc = "saveReturned"]
    /\ UNCHANGED treeVars

\* the caller continues after await saveItems(...)
saveItemsReturns ==
    /\ svc.pc = "saveReturned"
    /\ svc' = IF svc.caller = "loadItems"
              THEN [svc EXCEPT !.pc = "loaded", !.returned = svc.newItems]
              ELSE Returned(svc, svc.newItems)
    /\ UNCHANGED treeVars

\* setSavedItems(items) in fetchItems
setSavedItems ==
    /\ svc.pc = "loaded"
    /\ svc' = Returned(svc, svc.returned)
    /\ UNCHANGED treeVars

\* time passes while nothing is awaited
tick ==
    /\ svc.pc = "idle"
    /\ svc.now < MaxTime
    /\ svc' = [svc EXCEPT !.now = @ + 1]
    /\ UNCHANGED treeVars

StoreInit ==
    /\ TreeInit
    /\ svc \in {StoreStart(store, now) : store \in ItemLists, now \in 0..MaxTime}

StoreStep ==
    \/ \E outcome \in SaveOutcomes : saveData(outcome)
    \/ saveNothing
    \/ saveItemsReturns
    \/ setSavedItems

StoreNext ==
    \/ loadItems
    \/ \E k \in 1..MaxItems : handleUnsaveScene(k)
    \/ StoreStep
    \/ tick

\* every storage call settles and every continuation is run
SpecStore == StoreInit /\ [][StoreNext]_vars /\ WF_vars(StoreStep)

----------------------------------------------------------------------------
(* Saved items: handleToggleSaveScene, handleToggleSaveUploadedItem,
   handleSelectSavedItem, and the Image-Edit requests of handleEditImage and
   handleEditUploadedImage *)

\* file.type of an uploaded image (accept="image/*")
MimeTypes == {"image/png", "image/jpeg", "image/webp"}

\* the prompt context of a GenerationItem
Contexts ==
    [aspectRatio : {"16:9", "9:16"}, imageStyle : {"Cinematic", "Nigerian Cartoon"},
     genre : {"Drama"}, imageModel : {"imagen", "gemini"}, characters : {<<>>, <<"Ada">>}]

NoRequest == [imageBase64 |-> NullSrc]

\* the parameters handed to editImage
EditRequest(src, mimeType, context) ==
    [imageBase64 |-> src, mimeType |-> mimeType, editPrompt |-> "edit",
     aspectRatio |-> context.aspectRatio, imageStyle |-> context.imageStyle,
     genre |-> context.genre, characters |-> context.characters]

\* a GenerationItem of the history, or an UploadedItem with its mimeType
OriginalItem(kind, mimeType, context) ==
    [kind |-> kind, src |-> ImageSrc, mimeType |-> mimeType, context |-> context]

NoItem == [kind |-> "none"]

\* handleEditImage passes 'image/png'; handleEditUploadedImage passes
\* uploadedItem.mimeType
RequestFor(item) ==
    EditRequest(item.src, IF item.kind = "generated" THEN "image/png" ELSE item.mimeType,
                item.context)

\* the SavedItem built by handleToggleSaveScene and handleToggleSaveUploadedItem
SavedItemOf(item) == [kind |-> "saved", scene |-> item.src, context |-> item.context]

\* the UploadedItem built by handleSelectSavedItem
ReopenedItem(saved) ==
    [kind |-> "uploaded", src |-> saved.scene, mimeType |-> "image/png",
     context |-> saved.context]

SavedStart(item) ==
    [original |-> item, saved |-> NoItem, reopened |-> NoItem,
     originalRequest |-> NoRequest, reopenedRequest |-> NoRequest]

\* the scene is saved: the item is added to savedItems and persisted
handleToggleSaveScene ==
    /\ svc.saved = NoItem
    /\ svc' = [svc EXCEPT !.saved = SavedItemOf(svc.original)]
    /\ UNCHANGED treeVars

\* the saved item is opened from the saved list
handleSelectSavedItem ==
    /\ svc.saved # NoItem
    /\ svc.reopened = NoItem
    /\ svc' = [svc EXCEPT !.reopened = ReopenedItem(svc.saved)]
    /\ UNCHANGED treeVars

\* the edit instruction on the original item, up to the call of editImage
handleEditImage ==
    /\ svc.originalRequest = NoRequest
    /\ svc' = [svc EXCEPT !.originalRequest = RequestFor(svc.original)]
    /\ UNCHANGED treeVars

\* the edit instruction on the reopened item, up to the call of editImage
handleEditUploadedImage ==
    /\ svc.reopened # NoItem
    /\ svc.reopenedRequest = NoRequest
    /\ svc' = [svc EXCEPT !.reopenedRequest = RequestFor(svc.reopened)]
    /\ UNCHANGED treeVars

SavedInit ==
    /\ TreeInit
    /\ svc \in {SavedStart(OriginalItem("generated", "image/png", c)) : c \in Contexts}
          \cup {SavedStart(OriginalItem("uploaded", m, c)) : m \in MimeTypes, c \in Contexts}

SavedNext ==
    \/ handleToggleSaveScene
    \/ handleSelectSavedItem
    \/ handleEditImage
    \/ handleEditUploadedImage

SpecSaved == SavedInit /\ [][SavedNext]_vars /\ WF_vars(SavedNext)

----------------------------------------------------------------------------
(* GenerationResultItem: the busy flags of one root scene and the controls
   that start its asynchronous actions *)

\* scene?.isRegenerating || scene?.isEditing || scene?.isGeneratingAngles
isActionInProgress(s) == s.isRegenerating \/ s.isEditing \/ s.isGeneratingAngles

\* !scene?.src
imageFailed(s) == s.src = NullSrc

\* the left panel shows renderContent(), with the video and its reset button
ContentRendered(s) == ~isActionInProgress(s) /\ ~imageFailed(s)

\* a root scene of a 16:9 generation; inFlight holds the asynchronous actions
\* of the node that have been started and have not settled
MaxImages == 3

\* src and previousSrc are NullSrc or the number of an image; images counts
\* the images received so far; sceneToEdit is the image handleEditImage read
\* when it was last called
NodeStart(src) ==
    [src |-> src, previousSrc |-> NullSrc, sceneToEdit |-> NullSrc, images |-> src,
     isRegenerating |-> FALSE, isEditing |-> FALSE,
     isGeneratingAngles |-> FALSE, status |-> "idle", clips |-> 0,
     showScriptInput |-> FALSE, showEdit |-> FALSE, inFlight |-> {}]

\* the scene once a call has settled with a new image, or with none
WithResult(s, image) ==
    IF image THEN [s EXCEPT !.src = s.images + 1, !.images = @ + 1]
    ELSE [s EXCEPT !.src = NullSrc]

\* 'Regenerate', next to 'Edit Image' or in the 'Image Failed' panel
onRegenerateImage ==
    /\ ~isActionInProgress(svc)
    /\ svc.status = "idle" \/ imageFailed(svc)
    /\ svc' = [svc EXCEPT !.isRegenerating = TRUE, !.inFlight = @ \cup {"regenerate"}]
    /\ UNCHANGED treeVars

\* generateSingleImage settles in handleRegenerateImage
regenerateSettles(image) ==
    /\ "regenerate" \in svc.inFlight
    /\ image => svc.images < MaxImages
    /\ svc' = [WithResult(svc, image) EXCEPT !.isRegenerating = FALSE,
                                             !.inFlight = @ \ {"regenerate"}]
    /\ UNCHANGED treeVars

\* 'Edit Image': setShowEdit(!showEdit)
setShowEdit ==
    /\ svc.status = "idle"
    /\ ~imageFailed(svc) /\ ~isActionInProgress(svc)
    /\ svc' = [svc EXCEPT !.showEdit = ~@]
    /\ UNCHANGED treeVars

\* 'Apply Edit' with an edit prompt
onEditImage ==
    /\ svc.showEdit /\ ~imageFailed(svc) /\ svc.status = "idle"
    /\ ~isActionInProgress(svc)
    /\ svc' = [svc EXCEPT !.isEditing = TRUE, !.showEdit = FALSE,
                          !.sceneToEdit = svc.src, !.previousSrc = svc.src,
                          !.inFlight = @ \cup {"edit"}]
    /\ UNCHANGED treeVars

\* editImage settles in handleEditImage
editSettles(image) ==
    /\ "edit" \in svc.inFlight
    /\ image => svc.images < MaxImages
    /\ svc' = [WithResult(svc, image) EXCEPT !.isEditing = FALSE,
                                             !.inFlight = @ \ {"edit"}]
    /\ UNCHANGED treeVars

handleUndoEditKeepsSlot(s) ==
    IF s.previousSrc # NullSrc THEN [s EXCEPT !.src = s.previousSrc] ELSE s

\* the state update of handleUndoEdit on the scene
handleUndoEdit(s) ==
    IF s.previousSrc # NullSrc
    THEN [s EXCEPT !.src = s.previousSrc, !.previousSrc = NullSrc]
    ELSE s

\* 'Undo Last Edit', in the edit panel
onUndoEdit ==
    /\ svc.showEdit /\ ~imageFailed(svc) /\ svc.status = "idle"
    /\ svc.previousSrc # NullSrc /\ ~isActionInProgress(svc)
    /\ svc' = handleUndoEdit(svc)
    /\ UNCHANGED treeVars

\* the camera button of the thumbnail, then the confirmation of the modal
onGenerateCameraAngles ==
    /\ svc.src # NullSrc /\ ~svc.isRegenerating
    /\ ~svc.isGeneratingAngles
    /\ svc' = [svc EXCEPT !.isGeneratingAngles = TRUE, !.inFlight = @ \cup {"angles"}]
    /\ UNCHANGED treeVars

\* generateCameraAnglesFromImage settles in handleConfirmAngleGeneration
anglesSettle ==
    /\ "angles" \in svc.inFlight
    /\ svc' = [svc EXCEPT !.isGeneratingAngles = FALSE, !.inFlight = @ \ {"angles"}]
    /\ UNCHANGED treeVars

\* 'Generate Video' and 'Regenerate Video'
onGenerateVideoToggle ==
    /\ \/ /\ ~imageFailed(svc) /\ ~showVideoControls(svc) /\ ~svc.showScriptInput
          /\ ~isActionInProgress(svc)
       \/ showVideoControls(svc)
    /\ svc' = [svc EXCEPT !.showScriptInput = ~@]
    /\ UNCHANGED treeVars

\* 'Start Generation'
onConfirmGenerateVideo ==
    /\ ~imageFailed(svc)
    /\ svc.showScriptInput /\ svc.status # "loading"
    /\ svc' = [svc EXCEPT !.status = "loading", !.showScriptInput = FALSE,
                          !.inFlight = @ \cup {"video"}]
    /\ UNCHANGED treeVars

\* generateVideoFromScene settles in handleConfirmGenerateVideo
videoSettles(status) ==
    /\ "video" \in svc.inFlight
    /\ svc' = [svc EXCEPT !.status = status, !.inFlight = @ \ {"video"},
                          !.clips = IF status = "success" THEN 1 ELSE @]
    /\ UNCHANGED treeVars

\* the reset buttons of the video and of its error
onDeleteVideo ==
    /\ ContentRendered(svc)
    /\ svc.status \in {"success", "error"}
    /\ svc' = [svc EXCEPT !.status = "idle", !.clips = 0, !.showScriptInput = FALSE]
    /\ UNCHANGED treeVars

NodeInit == TreeInit /\ svc \in {NodeStart(src) : src \in {NullSrc, ImageSrc}}

NodeNext ==
    \/ onRegenerateImage
    \/ \E image \in BOOLEAN : regenerateSettles(image)
    \/ setShowEdit
    \/ onEditImage
    \/ \E image \in BOOLEAN : editSettles(image)
    \/ onUndoEdit
    \/ onGenerateCameraAngles
    \/ anglesSettle
    \/ onGenerateVideoToggle
    \/ onConfirmGenerateVideo
    \/ \E status \in {"success", "error"} : videoSettles(status)
    \/ onDeleteVideo

SpecNode == NodeInit /\ [][NodeNext]_vars /\ WF_vars(NodeNext)

----------------------------------------------------------------------------
(* a remote call made through withRetry that keeps failing with one message,
   and the catch block that shows the normalised text *)

\* withRetry(apiCall) is entered; the backend answers every invocation with
\* the same error message
FailingCall(message) ==
    [pc |-> "call", message |-> message, attempt |-> 0, waited |-> 0,
     shown |-> Normalised("", {})]

\* apiCall rejects: the catch block of withRetry
callRejects ==
    /\ svc.pc = "call"
    /\ svc' = [svc EXCEPT !.attempt = @ + 1,
                          !.pc = IF RetriesAfter(svc.attempt, svc.message)
                                 THEN "delay" ELSE "thrown"]
    /\ UNCHANGED treeVars

\* await delay(delaySeconds * 1000), then the next turn of the loop
retryPause ==
    /\ svc.pc = "delay"
    /\ svc' = [svc EXCEPT !.pc = "call", !.waited = @ + delaySeconds(svc.attempt)]
    /\ UNCHANGED treeVars

\* the caller's catch block: parseErrorMessage(error) is shown
showRejection ==
    /\ svc.pc = "thrown"
    /\ svc' = [svc EXCEPT !.pc = "shown", !.shown = parseErrorMessage(svc.message)]
    /\ UNCHANGED treeVars

SurfaceInit == TreeInit /\ svc \in {FailingCall(m) : m \in BackendMessages}

SurfaceNext ==
    \/ callRejects
    \/ retryPause
    \/ showRejection

SpecSurface == SurfaceInit /\ [][SurfaceNext]_vars /\ WF_vars(SurfaceNext)

----------------------------------------------------------------------------
(* handleExtendFromLastFrame on a storyboard whose videos have been generated *)

MaxRoots == 3

\* a storyboard of n scenes with an image, some with a generated clip
ExtendInit ==
    /\ hasItem = TRUE
    /\ \E n \in 1..MaxRoots :
          /\ imageSet = FreshScenes(n, {}, NoParent)
          /\ videoStates \in [1..n -> {getInitialVideoState,
                                       [status |-> "success", clips |-> 1]}]
    /\ selectedSceneIndex = 0
    /\ pending = EmptyBag
    /\ jobs = 0
    /\ crashed = FALSE
    /\ last = NoEvent
    /\ svc = RetryIdle

ExtendNext ==
    \/ \E i \in 0..(Len(imageSet) - 1) : handleSelectScene(i)
    \/ StartExtend
    \/ \E op \in PendingOps : ExtendResolved(op)
    \/ \E op \in PendingOps : ExtendRejected(op)

SpecExtend == ExtendInit /\ [][ExtendNext]_vars

----------------------------------------------------------------------------
(* a storyboard whose scenes are deleted and given camera angles while video
   and camera-angle calls are in flight *)

BusyInit ==
    /\ hasItem = TRUE
    /\ \E n \in 1..MaxRoots :
          /\ imageSet = FreshScenes(n, {}, NoParent)
          /\ videoStates = [j \in 1..n |-> getInitialVideoState]
    /\ selectedSceneIndex = 0
    /\ pending = EmptyBag
    /\ jobs = 0
    /\ crashed = FALSE
    /\ last = NoEvent
    /\ svc = RetryIdle

\* a call in flight returns
BusySettle ==
    \/ \E op \in PendingOps : \E failed \in FailureChoices(op.k) : AnglesResolved(op, failed)
    \/ \E op \in PendingOps : AnglesRejected(op)
    \/ \E op \in PendingOps : VideoResolved(op)
    \/ \E op \in PendingOps : VideoRejected(op)

BusyNext ==
    \/ \E i \in 0..(Len(imageSet) - 1) : handleSelectScene(i)
    \/ \E i \in 0..(Len(imageSet) - 1) : \E k \in 1..NumAngles : StartAngleGeneration(i, k)
    \/ StartVideoGeneration
    \/ \E i \in 0..(Len(imageSet) - 1) : handleDeleteScene(i)
    \/ BusySettle

\* every remote call eventually returns
SpecBusy == BusyInit /\ [][BusyNext]_vars /\ WF_vars(BusySettle)

----------------------------------------------------------------------------
(* generateSpeech: speaker detection and the synthesis call, and the speaker
   indicator of SpeakerSelector over the same script and roster *)

availableVoices == <<"Kore", "Puck", "Zephyr", "Charon", "Fenrir">>

\* the names of the characters; "" is a character without a name
Rosters ==
    {<<>>, <<"Amy">>, <<"", "Amy", "Bob">>, <<"narrator", "Amy">>,
     <<"Amy", "Bob", "Cat", "Dan", "Eve">>}

\* what a script line can carry before its first colon
WrittenNames == {"Narrator", "narrator", "Amy", "amy", "Bob", "Cat", "Dan", "Eve", "Zed"}

\* String.prototype.toLowerCase on a name
NameToLowerCase(name) ==
    CASE name = "Narrator" -> "narrator"
      [] name = "Amy" -> "amy"
      [] name = "Bob" -> "bob"
      [] name = "Cat" -> "cat"
      [] name = "Dan" -> "dan"
      [] name = "Eve" -> "eve"
      [] name = "Zed" -> "zed"
      [] OTHER -> name

\* characters.filter(c => c.name).map(c => c.name)
knownCharacters(characters) == SelectSeq(characters, LAMBDA name : name # "")

allPossibleSpeakers(characters) == <<"Narrator">> \o knownCharacters(characters)

\* find() found nothing
NoSpeaker == ""

\* allPossibleSpeakers.find(s => s.toLowerCase() === speakerName.toLowerCase())
foundSpeaker(characters, speakerName) ==
    LET all == allPossibleSpeakers(characters)
        hits == {j \in DOMAIN all : NameToLowerCase(all[j]) = NameToLowerCase(speakerName)}
    IN  IF hits = {} THEN NoSpeaker
        ELSE all[CHOOSE j \in hits : \A k \in hits : j <= k]

\* Set.prototype.add on a set that iterates in insertion order
AddSpeaker(detected, speaker) ==
    IF speaker = NoSpeaker \/ \E j \in DOMAIN detected : detected[j] = speaker
    THEN detected
    ELSE Append(detected, speaker)

\* match[1].trim() of /^([\w\s]+):/gm when the colon of a line "name: ..." ends
\* the match. \s matches a line break, so a match that began on an earlier
\* line made of word characters and white space only runs on to this colon.
\* carry tells what the match in progress has taken from the earlier lines:
\* nothing ("none"), white space only ("blank"), or words ("words").
CapturedName(carry, name) == IF carry = "words" THEN "words" ELSE name

\* the same for line.match(/^([\w\s]+):/) on one line of script.split('\n')
CapturedNameInLine(name) == name

speakerVoiceConfigsNoCycle(detected) ==
    [j \in DOMAIN detected |->
        [speaker |-> detected[j], voiceName |-> availableVoices[Min(j, Len(availableVoices))]]]

\* Array.from(detectedSpeakers).map((name, index) => ...)
speakerVoiceConfigs(detected) ==
    [j \in DOMAIN detected |->
        [speaker |-> detected[j],
         voiceName |-> availableVoices[((j - 1) % Len(availableVoices)) + 1]]]

\* singleSpeakerName, then speakerVoice
speakerVoice(detected) ==
    LET singleSpeakerName == IF Len(detected) = 1 THEN detected[1] ELSE "Narrator"
    IN  IF singleSpeakerName = "Narrator" THEN "Kore" ELSE "Puck"

NoCall == [mode |-> "none", voices |-> <<>>]

SpeechStart(characters, script) ==
    [pc |-> "entry", characters |-> characters, script |-> script, carry |-> "none",
     detectedSpeakers |-> <<>>, speakers |-> {}, nonBlank |-> FALSE,
     activeSpeakers |-> {}, call |-> NoCall, calls |-> 0, result |-> "none"]

\* if (!script) return null
checkScript ==
    /\ svc.pc = "entry"
    /\ svc' = IF svc.script = "empty"
              THEN [svc EXCEPT !.pc = "returned", !.result = "null"]
              ELSE [svc EXCEPT !.pc = "scan"]
    /\ UNCHANGED treeVars

\* the next line of the script is "name: ..."
readMarker(name) ==
    /\ svc.pc = "scan"
    /\ svc' = [svc EXCEPT
                !.detectedSpeakers =
                    AddSpeaker(@, foundSpeaker(svc.characters, CapturedName(svc.carry, name))),
                !.speakers = @ \cup ({foundSpeaker(svc.characters, CapturedNameInLine(name))}
                                        \ {NoSpeaker}),
                !.carry = "none",
                !.nonBlank = TRUE]
    /\ UNCHANGED treeVars

\* the next line holds words and white space only, and no colon
readWords ==
    /\ svc.pc = "scan"
    /\ svc' = [svc EXCEPT !.carry = "words", !.nonBlank = TRUE]
    /\ UNCHANGED treeVars

\* the next line is empty or white space
readBlank ==
    /\ svc.pc = "scan"
    /\ svc' = [svc EXCEPT !.carry = IF @ = "words" THEN "words" ELSE "blank"]
    /\ UNCHANGED treeVars

\* the next line has a character other than a word character, white space or
\* a colon before any colon: no match begins on it or on the lines carried
readOther ==
    /\ svc.pc = "scan"
    /\ svc' = [svc EXCEPT !.carry = "none", !.nonBlank = TRUE]
    /\ UNCHANGED treeVars

\* the script ends; SpeakerSelector shows Narrator for a script without speaker
endOfScript ==
    /\ svc.pc = "scan"
    /\ svc' = [svc EXCEPT !.pc = "detected", !.carry = "none",
                          !.activeSpeakers = IF svc.speakers = {} /\ svc.nonBlank
                                             THEN {"Narrator"} ELSE svc.speakers]
    /\ UNCHANGED treeVars

\* the multi-speaker or the single-speaker generateContent call is issued
synthesize ==
    /\ svc.pc = "detected"
    /\ svc' = [svc EXCEPT
                !.pc = "tts",
                !.calls = @ + 1,
                !.call = IF Len(svc.detectedSpeakers) > 1
                         THEN [mode |-> "multi",
                               voices |-> speakerVoiceConfigs(svc.detectedSpeakers)]
                         ELSE [mode |-> "single",
                               voices |-> <<speakerVoice(svc.detectedSpeakers)>>]]
    /\ UNCHANGED treeVars

\* the call, with the retries of withRetry, settles: audio, no inline data, or
\* the error that the catch block rethrows
ttsSettles(outcome) ==
    /\ svc.pc = "tts"
    /\ svc' = [svc EXCEPT !.pc = IF outcome = "error" THEN "rejected" ELSE "returned",
                          !.result = IF outcome = "audio" THEN "audio"
                                     ELSE IF outcome = "error" THEN "none" ELSE "null"]
    /\ UNCHANGED treeVars

SpeechInit ==
    /\ TreeInit
    /\ svc \in {SpeechStart(c, s) : c \in Rosters, s \in {"empty", "text"}}

SpeechNext ==
    \/ checkScript
    \/ \E name \in WrittenNames : readMarker(name)
    \/ readWords
    \/ readBlank
    \/ readOther
    \/ endOfScript
    \/ synthesize
    \/ \E outcome \in {"audio", "nodata", "error"} : ttsSettles(outcome)

SpecSpeech == SpeechInit /\ [][SpeechNext]_vars

----------------------------------------------------------------------------
(* generateSingleImage: the text of the image-generation prompt *)

MaxChars == 2

\* allCharactersWithStyles: character id has a reference image or has none
CharacterLists == [1..MaxChars -> BOOLEAN]

\* charactersForPrompt: the ids of some characters, in roster order
PromptCharacters == SUBSET (1..MaxChars)

Genres == {"", "General", "Drama"}

ImageModels == {"gemini-2.5-flash-image", "imagen-4.0-generate-001"}

NoChar == 0

\* allCharactersWithStyles.find(c => c.originalImageBase64 && c.originalImageMimeType)
charForImageRef(all) ==
    IF \E id \in DOMAIN all : all[id] THEN
        CHOOSE id \in DOMAIN all : all[id] /\ \A other \in DOMAIN all : all[other] => id <= other
    ELSE NoChar

charactersForTextDescriptionAll(forPrompt, all) == forPrompt

\* charactersForPrompt.filter(c => c.id !== charImageToIntegrate.charId)
charactersForTextDescription(forPrompt, all) == forPrompt \ {charForImageRef(all)}

\* genre && genre.toLowerCase() !== 'general' ? genre : ''
genreInstruction(genre) == IF genre \in {"", "General"} THEN "" ELSE genre

\* imageModel === 'gemini-2.5-flash-image' || forceNanoBanana
isNanoBanana(imageModel, all) ==
    imageModel = "gemini-2.5-flash-image" \/ charForImageRef(all) # NoChar

Block(name, ids) == [block |-> name, ids |-> ids]

Optional(present, block) == IF present THEN <<block>> ELSE <<>>

\* integrationTextPrompt and baseTextPrompt: the blocks of the template
\* literal from left to right, then the genre line
TextPrompt(s) ==
    Optional(charForImageRef(s.all) # NoChar, Block("characterIntegrityInstruction", {}))
    \o <<Block("racialMandate", {})>>
    \o Optional(charactersForTextDescription(s.forPrompt, s.all) # {},
                Block("finalCharacterBlock", charactersForTextDescription(s.forPrompt, s.all)))
    \o Optional(s.referenceDescription # "", Block("visualReferencePreamble", {}))
    \o <<Block("SCENE", {}), Block("IMAGE_STYLE_GUIDE", {})>>
    \o Optional(isNanoBanana(s.imageModel, s.all), Block("ASPECT RATIO", {}))
    \o Optional(genreInstruction(s.genre) # "", Block("GENRE", {}))

PromptStart(all, forPrompt, reference, imageModel, genre) ==
    [pc |-> "reference", all |-> all, forPrompt |-> forPrompt, reference |-> reference,
     imageModel |-> imageModel, genre |-> genre, referenceDescription |-> "",
     text |-> <<>>, inlineImage |-> NoChar, call |-> "none"]

\* referenceDescriptionOverride, or describeImageForConsistency, or neither
resolveReference(outcome) ==
    /\ svc.pc = "reference"
    /\ outcome = "described" \/ svc.reference = "image"
    /\ svc' = IF svc.reference = "override"
              THEN [svc EXCEPT !.pc = "compose", !.referenceDescription = "described"]
              ELSE IF svc.reference = "none" THEN [svc EXCEPT !.pc = "compose"]
              ELSE IF outcome = "error" THEN [svc EXCEPT !.pc = "failed"]
              ELSE [svc EXCEPT !.pc = "compose", !.referenceDescription = outcome]
    /\ UNCHANGED treeVars

\* contentsParts is built
composePrompt ==
    /\ svc.pc = "compose"
    /\ svc' = [svc EXCEPT !.pc = "call", !.text = TextPrompt(svc),
                          !.inlineImage = charForImageRef(svc.all)]
    /\ UNCHANGED treeVars

\* generateContent on the image-conditioned model, or generateImages
callImageModel ==
    /\ svc.pc = "call"
    /\ svc' = [svc EXCEPT !.pc = "called",
                          !.call = IF isNanoBanana(svc.imageModel, svc.all)
                                   THEN "generateContent" ELSE "generateImages"]
    /\ UNCHANGED treeVars

PromptInit ==
    /\ TreeInit
    /\ svc \in {PromptStart(all, forPrompt, reference, imageModel, genre) :
                    all \in CharacterLists, forPrompt \in PromptCharacters,
                    reference \in {"none", "override", "image"},
                    imageModel \in ImageModels, genre \in Genres}

PromptNext ==
    \/ \E outcome \in {"described", "", "error"} : resolveReference(outcome)
    \/ composePrompt
    \/ callImageModel

SpecPrompt == PromptInit /\ [][PromptNext]_vars

----------------------------------------------------------------------------
(* the saved marker of the scenes of one generation: SceneThumbnail,
   handleToggleSaveScene, handleDeleteScene and the camera-angle insertion *)

MaxIds == 4

\* a scene with an image that is told from the others by the number id
SceneWithId(id, par) ==
    [src |-> ImageSrc, par |-> par, isGeneratingAngles |-> FALSE, hole |-> FALSE, id |-> id]

\* itemId is `${generationItem.id}-${sceneIndex}`: within one generation the
\* scene index; scene is the scene copied into the item
SavedItemAt(s, sceneIndex) == [id |-> sceneIndex, scene |-> s[sceneIndex + 1].id]

\* savedItems.some(item => item.id === `${generationItem.id}-${index}`)
isSaved(savedItems, index) == \E item \in savedItems : item.id = index

KeyStart(n) ==
    [imageSet |-> [j \in 1..n |-> SceneWithId(j, NoParent)], savedItems |-> {}, ids |-> n]

\* the bookmark button of a thumbnail: handleToggleSaveScene
onToggleSave(index) ==
    /\ Defined(svc.imageSet, index)
    /\ svc' = [svc EXCEPT !.savedItems =
                 IF isSaved(svc.savedItems, index)
                 THEN {item \in svc.savedItems : item.id # index}
                 ELSE svc.savedItems \cup {SavedItemAt(svc.imageSet, index)}]
    /\ UNCHANGED treeVars

\* the delete button of a thumbnail: handleDeleteScene, confirmed
onDeleteScene(index) ==
    /\ Defined(svc.imageSet, index)
    /\ svc' = [svc EXCEPT !.imageSet =
                 DeleteFromImageSet(svc.imageSet, FinalIndicesToRemove(svc.imageSet, index))]
    /\ UNCHANGED treeVars

\* handleConfirmAngleGeneration for a root, with one angle, from the
\* confirmation to the insertion of the new scene
onGenerateCameraAngle(index) ==
    /\ Defined(svc.imageSet, index)
    /\ svc.imageSet[index + 1].par = NoParent
    /\ svc.ids < MaxIds
    /\ svc' = [svc EXCEPT !.ids = @ + 1,
                          !.imageSet = InsertAngleScenes(svc.imageSet, index,
                                           <<SceneWithId(svc.ids + 1, NoParent)>>)]
    /\ UNCHANGED treeVars

KeyInit == TreeInit /\ svc \in {KeyStart(n) : n \in 1..MaxRoots}

KeyNext ==
    \/ \E index \in 0..(MaxIds - 1) : onToggleSave(index)
    \/ \E index \in 0..(MaxIds - 1) : onDeleteScene(index)
    \/ \E index \in 0..(MaxIds - 1) : onGenerateCameraAngle(index)

SpecKey == KeyInit /\ [][KeyNext]_vars

Init == TreeInit /\ svc = RetryIdle

Next == TreeNext

Spec == Init /\ [][Next]_vars

----------------------------------------------------------------------------
(* Scene tree: structure *)

Indices == 0..(Len(imageSet) - 1)
IsRoot(i) == i \in Indices /\ imageSet[i + 1].par = NoParent
Children(r) == {c \in Indices : imageSet[c + 1].par = r}

\* C1: in every state the Generation has as many VideoStates as Scenes.
C1_LengthsAligned == Len(videoStates) = Len(imageSet)

\* C2: every node that carries a parent reference points to an existing index
\* whose node is a root, so no node is a child of a child.
C2_ParentIsExistingRoot ==
    \A i \in Indices : imageSet[i + 1].par # NoParent => IsRoot(imageSet[i + 1].par)

\* C3: the children of a root at index r are exactly the nodes r+1..r+k.
C3_ChildrenContiguous ==
    \A r \in Indices :
        IsRoot(r) => Children(r) = (r + 1)..(r + Cardinality(Children(r)))

----------------------------------------------------------------------------
(* Scene tree: deletion and insertion steps *)

\* new index of the old index i once the indices in rem are gone
NewIndex(rem, i) == Cardinality({j \in 0..(i - 1) : j \notin rem})

\* the step removed exactly the nodes at the indices rem, with their
\* VideoStates, and every surviving reference to a root follows that root
RemovedExactly(rem) ==
    /\ ~crashed'
    /\ Len(imageSet') = Len(imageSet) - Cardinality(rem)
    /\ Len(videoStates') = Len(imageSet')
    /\ \A i \in Indices \ rem :
        LET old == imageSet[i + 1]
            new == imageSet'[NewIndex(rem, i) + 1]
        IN  /\ new.src = old.src
            /\ new.isGeneratingAngles = old.isGeneratingAngles
            /\ old.par = NoParent => new.par = NoParent
            /\ IsRoot(old.par) => new.par = NewIndex(rem, old.par)
            /\ i < Len(videoStates)
            /\ videoStates'[NewIndex(rem, i) + 1] = videoStates[i + 1]

DeletedIndex == last'.idx

\* C4: a confirmed deletion of a root with k angle-children removes exactly
\* those k+1 nodes with their VideoStates, and every surviving parent
\* reference is rewritten to the new index of the root it pointed to.
C4_DeleteRootCascade ==
    [][(last'.kind = "delete" /\ IsRoot(DeletedIndex))
        => RemovedExactly({DeletedIndex} \cup Children(DeletedIndex))]_vars

\* the scene at index c is the only child of a root
SoleChild(c) ==
    /\ c \in Indices
    /\ IsRoot(imageSet[c + 1].par)
    /\ Children(imageSet[c + 1].par) = {c}

\* C5: a confirmed deletion of the only remaining angle-child of a root
\* removes exactly that child and its root, with their VideoStates, and
\* re-indexes every later node and parent reference.
C5_DeleteLastChildCascade ==
    [][(last'.kind = "delete" /\ SoleChild(DeletedIndex))
        => RemovedExactly({DeletedIndex, imageSet[DeletedIndex + 1].par})]_vars

\* the step put k new nodes with parent reference r and fresh idle
\* VideoStates at the indices at..at+k-1 and kept every other node in order
InsertedAt(at, r, k) ==
    /\ ~crashed'
    /\ Len(imageSet') = Len(imageSet) + k
    /\ Len(videoStates') = Len(imageSet')
    /\ \A j \in at..(at + k - 1) :
        /\ imageSet'[j + 1].par = r
        /\ videoStates'[j + 1] = getInitialVideoState
    /\ \A i \in Indices :
        LET new == imageSet'[(IF i < at THEN i ELSE i + k) + 1]
        IN  /\ new.src = imageSet[i + 1].src
            /\ (new.par = NoParent) = (imageSet[i + 1].par = NoParent)

AngleRoot == last'.idx
AngleCount == last'.n

\* C6: k camera-angle scenes for the root at r are inserted at r+1..r+k with
\* parent reference r and fresh idle VideoStates, and every pre-existing node
\* at an index greater than r has its parent reference, if any, incremented by k.
C6_AngleInsertShiftsLaterNodes ==
    [][(last'.kind = "angles" /\ IsRoot(AngleRoot))
        => /\ InsertedAt(AngleRoot + 1, AngleRoot, AngleCount)
           /\ \A i \in Indices :
                (i > AngleRoot /\ imageSet[i + 1].par # NoParent)
                    => imageSet'[i + AngleCount + 1].par = imageSet[i + 1].par + AngleCount]_vars

LastChild(r) == CHOOSE c \in Children(r) : \A d \in Children(r) : d <= c

\* C7: camera-angle scenes for a root that already has angle-children are
\* inserted after its last pre-existing child, not between the root and its
\* existing children.
C7_AnglesAfterExistingChildren ==
    [][(last'.kind = "angles" /\ IsRoot(AngleRoot) /\ Children(AngleRoot) # {})
        => InsertedAt(LastChild(AngleRoot) + 1, AngleRoot, AngleCount)]_vars

----------------------------------------------------------------------------
(* withRetry: retry policy *)

Calls == Len(svc.outcomes)

\* the failure carries a transient marker: 503, 429 or overloaded (any case)
TransientFailure(o) ==
    /\ o.kind = "error"
    /\ o.message \cap {"503", "429", "overloaded", "Overloaded"} # {}

\* the first k invocations failed with a transient marker
FirstFailedTransient(k) ==
    /\ Calls >= k
    /\ \A i \in 1..k : TransientFailure(svc.outcomes[i])

ResolvedAfter(k) ==
    (FirstFailedTransient(k) /\ Calls > k /\ svc.outcomes[k + 1].kind = "value")
        => /\ svc.pc = "resolved"
           /\ svc.result = svc.outcomes[k + 1].value
           /\ Calls = k + 1
           /\ svc.waits = [i \in 1..k |-> (2 ^ i) * 15]

\* C8: with transient failures on the first k invocations (k in 0..2) and a
\* success on the next, withRetry makes that next invocation and resolves
\* with its value after exactly k+1 invocations and exactly k waits, the
\* i-th wait lasting 2^i x 15 seconds (30s, then 60s).
C8_ResolvesAfterTransientFailures ==
    /\ [](\A k \in 0..2 : ResolvedAfter(k))
    /\ \A k \in 0..2 : (Calls = k /\ FirstFailedTransient(k)) ~> (Calls = k + 1)

C8_Witness ==
    /\ svc.pc = "resolved"
    /\ Calls = 3
    /\ FirstFailedTransient(2)
    /\ svc.waits = <<30, 60>>

FirstFailedNonTransient ==
    /\ Calls >= 1
    /\ svc.outcomes[1].kind = "error"
    /\ ~TransientFailure(svc.outcomes[1])

\* C9: a first failure whose message has none of the transient markers makes
\* withRetry reject with that same error after exactly one invocation, with
\* no wait and no retry message emitted.
C9_NonTransientRejectsAtOnce ==
    /\ [](FirstFailedNonTransient
            => /\ Calls = 1
               /\ svc.waits = <<>>
               /\ svc.retryMessages = <<>>
               /\ svc.pc \in {"catch", "rejected"}
               /\ svc.pc = "rejected" => svc.error = ThrownError(svc.outcomes[1].message, 1))
    /\ FirstFailedNonTransient ~> (svc.pc = "rejected")

C9_Witness ==
    /\ FirstFailedNonTransient
    /\ svc.pc = "rejected"
    /\ svc.error = ThrownError({"400"}, 1)

\* C10: when every invocation fails with a transient marker, withRetry
\* invokes the operation exactly 3 times, waits exactly twice (30s, 60s) and
\* then rejects with the terminal error "API call failed after multiple
\* retries"; there is no fourth invocation.
C10_ExhaustionRejectsWithTerminalError ==
    /\ Calls <= 3
    /\ (Calls = 3 /\ FirstFailedTransient(3) /\ svc.pc = "rejected")
        => /\ svc.waits = <<30, 60>>
           /\ svc.error = TerminalError

----------------------------------------------------------------------------
(* generateVideoFromScene: remote calls, polling and the audio task *)

TransientMessage(message) ==
    message \cap {"503", "429", "overloaded", "Overloaded"} # {}

RemoteCalls == {"generateVideos", "getVideosOperation", "fetch"}

\* C11: every remote call (job submission, each status poll, the download of
\* the finished asset) goes through the retry policy: no call's transient
\* failure (503, 429, overloaded) is surfaced after a single invocation.
C11_TransientFailureIsRetried ==
    (/\ svc.pc = "rejected"
     /\ svc.error.from \in RemoteCalls
     /\ TransientMessage(svc.error.message))
        => svc.error.invocations >= 2

JobSucceeded ==
    /\ svc.operation.done
    /\ ~svc.operation.error
    /\ svc.operation.uri

\* C19: generateVideoFromScene resolves only for a job that is done with no
\* embedded error and an output handle, and a successful download; otherwise
\* it rejects. The status is fetched only after the 10s sleep and only while
\* the job is not done; while it is not done the next fetch is made.
C19_VideoJobOutcome ==
    /\ [](svc.pc = "resolved" => JobSucceeded /\ svc.status = "200")
    /\ [](svc.pc \in {"finalize", "download", "join", "resolved"} => svc.operation.done)
    /\ []((svc.status # "" /\ svc.status # "200") => svc.pc = "rejected")
    /\ (svc.pc = "finalize" /\ ~JobSucceeded) ~> (svc.pc = "rejected")
    /\ [][svc'.polls > svc.polls => (svc.slept /\ ~svc.operation.done)]_vars
    /\ \A n \in 0..MaxPolls :
        (svc.pc = "sleep" /\ svc.polls = n) ~> (svc.polls > n)

C19_Witness ==
    /\ svc.pc = "resolved"
    /\ svc.fetched = MaxPolls

\* C20: the video job is submitted and polled while the audio task is still
\* running, the audio result is awaited only after the download, and the
\* result is returned only after the video and the audio task have completed.
C20_AudioConcurrentWithVideo ==
    /\ (svc.audio = "running" /\ svc.pc \in {"submit", "sleep", "poll", "finalize", "download"})
        => ENABLED VideoStep
    /\ svc.joined => svc.status = "200"
    /\ svc.pc = "resolved"
        => /\ svc.submitted /\ svc.status = "200"
           /\ svc.joined /\ svc.audio = "settled"

C20_Witness ==
    /\ svc.pc = "join"
    /\ svc.fetched > 0
    /\ svc.audio = "running"

----------------------------------------------------------------------------
(* Scene pipeline: generateImageSet and the Generation made from it *)

PipelineResolved == svc.pc \in {"resolved", "done"}

\* C12: whenever generateImageSet resolves for a requested count N, the
\* storyboard has exactly N scenes, scene i carrying the i-th prompt, and the
\* Generation made from it has exactly N VideoStates, each idle with no clips.
C12_ExactlyRequestedScenes ==
    /\ PipelineResolved
        => /\ Len(svc.scenes) = svc.imageCount
           /\ \A j \in 1..Len(svc.scenes) : svc.scenes[j].prompt = j - 1
    /\ svc.pc = "done"
        => /\ Len(imageSet) = svc.imageCount
           /\ videoStates = [j \in 1..svc.imageCount |-> getInitialVideoState]

\* C13: image calls are issued in prompt order, each only after the previous
\* one has completed and a 15s pause has elapsed, with exactly n-1 pauses and
\* none after the last call; never are two image calls in flight.
C13_ImageCallsSequentialAndPaced ==
    /\ [](svc.inFlight <= 1)
    /\ [](svc.calls = [j \in 1..Len(svc.calls) |-> j - 1])
    /\ [][Len(svc'.calls) > Len(svc.calls)
            => /\ svc.inFlight = 0
               /\ Len(svc.scenes) = Len(svc.calls)
               /\ svc.pauses = [j \in 1..Len(svc.calls) |-> 15]]_vars
    /\ [](PipelineResolved
            => /\ Len(svc.calls) = svc.prompts
               /\ Len(svc.pauses) = svc.prompts - 1)

C13_Witness ==
    /\ svc.pc = "resolved"
    /\ svc.prompts = MaxCount
    /\ Len(svc.pauses) = MaxCount - 1

\* C14: whatever image calls fail or return no image, the pipeline resolves
\* with one scene per prompt: an affected scene has a null image and a
\* non-null error, every other scene an image and no error, and the later
\* prompts are still attempted.
C14_ImageFailureIsLocal ==
    /\ [](\A j \in 1..Len(svc.scenes) :
            IF svc.outcomes[j] = "image"
            THEN svc.scenes[j].src # NullSrc /\ svc.scenes[j].error = NoErrorText
            ELSE svc.scenes[j].src = NullSrc /\ svc.scenes[j].error # NoErrorText)
    /\ [](PipelineResolved
            => Len(svc.scenes) = svc.prompts /\ Len(svc.calls) = svc.prompts)
    /\ (svc.pc = "image") ~> (svc.pc = "done")

C14_Witness ==
    /\ svc.pc = "done"
    /\ Len(svc.outcomes) >= 3
    /\ svc.outcomes[1] = "error"
    /\ svc.outcomes[2] = "noimage"
    /\ svc.outcomes[3] = "image"

BreakdownInvalid ==
    \/ svc.breakdown \in {"error", "badjson", "noprompts", "notarray"}
    \/ svc.breakdown = "list" /\ svc.prompts = 0

\* C15: no image call is issued before the breakdown has returned a non-empty
\* list of prompts; when the breakdown fails or returns an empty or malformed
\* list, generateImageSet rejects with a normalised message, no image call
\* has been issued and no Generation is added to the history.
C15_BreakdownGatesImageCalls ==
    /\ [](svc.calls # <<>> => (svc.breakdown = "list" /\ svc.prompts > 0))
    /\ [](BreakdownInvalid
            => /\ svc.pc \in {"rejected", "failed"}
               /\ svc.calls = <<>>
               /\ ~hasItem
               /\ svc.error # NoErrorText
               /\ svc.error.words \cap {"503", "429"} = {})
    /\ BreakdownInvalid ~> (svc.pc = "failed")

C15_Witness ==
    /\ svc.pc = "failed"
    /\ svc.breakdown = "list"
    /\ svc.prompts = 0
    /\ svc.calls = <<>>

----------------------------------------------------------------------------
\* the rank of a remote call in the order outpaint, placement, per-angle edits
CallRank(call) == IF call = "outpaint" THEN 1 ELSE IF call = "placement" THEN 2 ELSE 3

OutpaintFailed == svc.outpaint \in {"noimage", "error"}

\* C16: generateCameraAnglesFromImage issues its remote calls in the order
\* outpaint, placement reasoning, per-angle edits; when the outpaint call
\* returns an error or no image the function rejects with the outpaint as its
\* only call, and the tree keeps its single node until the handler has shown
\* the error.
C16_OutpaintGatesAngleCalls ==
    /\ [](/\ svc.calls # <<>> => svc.calls[1] = "outpaint"
          /\ \A a, b \in DOMAIN svc.calls :
                a < b => /\ CallRank(svc.calls[a]) <= CallRank(svc.calls[b])
                         /\ CallRank(svc.calls[b]) > 1
                         /\ CallRank(svc.calls[a]) = 2 => CallRank(svc.calls[b]) = 3
          /\ OutpaintFailed => /\ svc.pc \in {"rejected", "failed"}
                               /\ svc.calls = <<"outpaint">>
                               /\ svc.scenes = <<>>
                               /\ Len(imageSet) = 1
                               /\ Len(videoStates) = 1)
    /\ (OutpaintFailed ~> svc.pc = "failed")

C16_Witness ==
    /\ svc.pc = "failed"
    /\ svc.outpaint = "noimage"
    /\ Len(svc.angleNames) = NumAngles
    /\ Len(imageSet) = 1

AngleEdited(angle) == \E c \in DOMAIN svc.calls : svc.calls[c] = angle

\* C17: when generateCameraAnglesFromImage resolves it returns exactly one
\* scene per requested angle, in the caller's order; an angle without a
\* placement instruction yields a scene with a null image and the descriptive
\* error and no edit call, and every angle with an instruction is edited
\* exactly once, whatever happened to the angles before it.
C17_OneScenePerAngle ==
    svc.pc \in {"resolved", "done"} =>
        /\ Len(svc.scenes) = Len(svc.angleNames)
        /\ \A j \in DOMAIN svc.angleNames :
              LET angle == svc.angleNames[j]
              IN  /\ svc.scenes[j].angle = angle
                  /\ angle \notin svc.cameraPrompts =>
                        /\ svc.scenes[j].src = NullSrc
                        /\ svc.scenes[j].error = NoPrompt(angle)
                        /\ ~AngleEdited(angle)
                  /\ angle \in svc.cameraPrompts =>
                        /\ Cardinality({c \in DOMAIN svc.calls : svc.calls[c] = angle}) = 1
                        /\ (svc.scenes[j].src = NullSrc) = (svc.scenes[j].error # NoErrorText)

C17_Witness ==
    /\ svc.pc = "resolved"
    /\ Len(svc.angleNames) = NumAngles
    /\ svc.angleNames[1] \notin svc.cameraPrompts
    /\ svc.scenes[2].src = NullSrc
    /\ svc.angleNames[2] \in svc.cameraPrompts
    /\ svc.scenes[3].src = ImageSrc

----------------------------------------------------------------------------
StatusChanges ==
    {<<"idle", "loading">>, <<"loading", "success">>, <<"loading", "error">>,
     <<"success", "idle">>, <<"error", "idle">>}

\* C18: a scene's video status changes only idle to loading, loading to
\* success, loading to error, and success or error to idle, the last with no
\* clip left; so a status becomes success or error only from loading.
C18_VideoStatusTransitions ==
    [][\A i \in 1..MaxVideoScenes :
          svc'.videoStates[i].status # svc.videoStates[i].status =>
              /\ <<svc.videoStates[i].status, svc'.videoStates[i].status>> \in StatusChanges
              /\ svc'.videoStates[i].status = "idle" => svc'.videoStates[i].clips = 0]_vars

----------------------------------------------------------------------------
ExtendedIndex == last'.idx

\* C21: extend-from-last-frame on a scene whose video status is success keeps
\* that status and appends a new clip to that scene's clip sequence.
C21_ExtendAppendsClip ==
    [][(last'.kind = "extend" /\ ~crashed' /\ VideoDefined(videoStates, ExtendedIndex)
            /\ videoStates[ExtendedIndex + 1].status = "success")
        => /\ videoStates'[ExtendedIndex + 1].status = "success"
           /\ videoStates'[ExtendedIndex + 1].clips = videoStates[ExtendedIndex + 1].clips + 1]_vars

----------------------------------------------------------------------------
(* Error Normalizer *)

NestedMessage == svc.error.message \ {JsonEnvelope}

IsJsonWithNestedMessage ==
    svc.error.instanceOfError /\ JsonEnvelope \in svc.error.message /\ NestedMessage # {}

FixedSentences ==
    {"Invalid API Key.", "Your prompt was blocked due to the content policy.",
     "You've exceeded your quota.", "The model is temporarily unavailable or overloaded.",
     "API Key error.", "An unexpected error occurred."}

\* C22: for a message that parses as JSON with a non-empty error.message,
\* parseErrorMessage returns that nested message, prefixed with
\* 'Quota exceeded. ' exactly when the nested message mentions quota in any
\* case, and never one of the fixed sentences of the later checks.
C22_NestedMessageSurfaced ==
    (svc.pc = "shown" /\ IsJsonWithNestedMessage) =>
        /\ svc.shown.words = NestedMessage
        /\ svc.shown.text = IF NestedMessage \cap {"quota", "Quota"} # {}
                            THEN "Quota exceeded. " ELSE ""
        /\ svc.shown.text \notin FixedSentences

C22_Witness ==
    /\ svc.pc = "shown"
    /\ svc.error.message = {JsonEnvelope, "503"}
    /\ svc.shown = Normalised("", {"503"})

\* the classes of the substring checks, in their order
ErrorClasses ==
    << [patterns |-> {"api key not valid"}, sentence |-> "Invalid API Key."],
       [patterns |-> {"blocked", "safety"},
        sentence |-> "Your prompt was blocked due to the content policy."],
       [patterns |-> {"429", "resource_exhausted", "rate limit"},
        sentence |-> "You've exceeded your quota."],
       [patterns |-> {"503", "unavailable", "overloaded"},
        sentence |-> "The model is temporarily unavailable or overloaded."],
       [patterns |-> {"requested entity was not found"}, sentence |-> "API Key error."] >>

MatchingClasses(message) ==
    {k \in DOMAIN ErrorClasses : ToLowerCase(message) \cap ErrorClasses[k].patterns # {}}

FirstClass(message) ==
    CHOOSE k \in MatchingClasses(message) : \A j \in MatchingClasses(message) : k <= j

\* C23: for an Error whose message is not JSON with a nested message,
\* parseErrorMessage returns the fixed sentence of the first matching class
\* in the order invalid API key, content block, quota, unavailability, entity
\* not found; the message itself when no class matches; and the generic
\* sentence when the message is empty or the thrown value is not an Error.
C23_FirstMatchingClass ==
    svc.pc = "shown" =>
        /\ ~svc.error.instanceOfError => svc.shown = defaultMessage
        /\ (svc.error.instanceOfError /\ ~IsJsonWithNestedMessage) =>
              svc.shown = IF MatchingClasses(svc.error.message) # {}
                          THEN Normalised(ErrorClasses[FirstClass(svc.error.message)].sentence, {})
                          ELSE IF svc.error.message # {}
                          THEN Normalised("", svc.error.message)
                          ELSE defaultMessage

C23_Witness ==
    /\ svc.pc = "shown"
    /\ svc.error.message = {"503", "safety"}
    /\ svc.shown.text = "Your prompt was blocked due to the content policy."

\* the text shown carries the backend's own words, unchanged
ShownRaw == svc.shown.words = svc.error.message

\* C24: a failure text that reaches the user is never the raw backend error
\* message.
C24_NeverRawBackendMessage ==
    (svc.pc = "shown" /\ svc.error.instanceOfError /\ svc.error.message # {}) => ~ShownRaw

----------------------------------------------------------------------------
(* generateSpeech inside generateVideoFromScene *)

SpeechFailed == svc.speechError # NoSpeechError

\* C25: a failed speech-synthesis call becomes an error labelled
\* 'TTS generation failed', and the video assembly that asked for the
\* text-to-speech voiceover does not complete as if there were no audio.
C25_SpeechFailurePropagates ==
    SpeechFailed =>
        /\ SubSeq(svc.speechError.text, 1, 23) = "TTS generation failed: "
        /\ svc.pc # "resolved"

----------------------------------------------------------------------------
(* Saved items: loadItems and saveItems *)

Expired(items) == {j \in DOMAIN items : items[j] <= svc.now}

\* C26: loadItems returns no item whose expiry time is at or before the
\* current time, and when it returns the persisted store holds no expired
\* item.
C26_LoadPurgesExpired ==
    svc.pc = "loaded" => Expired(svc.returned) = {} /\ Expired(svc.store) = {}

Least(items) == CHOOSE x \in {items[j] : j \in DOMAIN items} :
                    \A j \in DOMAIN items : x <= items[j]

\* the bag of the expiry times of a list
BagOf(items) == [x \in {items[j] : j \in DOMAIN items} |->
                    Cardinality({j \in DOMAIN items : items[j] = x})]

\* C27: saveItems always returns to its caller; a failed save that leaves it
\* in its loop has dropped exactly one item, one with the earliest expiry;
\* and it makes at most as many save attempts as it was given items.
C27_SaveItemsEvictsAndReturns ==
    /\ [](svc.attempts <= Len(svc.items))
    /\ [][(svc.pc = "saveItems" /\ svc'.pc = "saveItems" /\ svc'.attempts > svc.attempts)
            => BagOf(svc.currentItems) = BagOf(svc'.currentItems) (+) SetToBag({Least(svc.currentItems)})]_vars
    /\ (svc.pc = "saveItems" ~> svc.pc = "saveReturned")

C27_Witness ==
    /\ svc.pc = "saveReturned"
    /\ Len(svc.items) > 1
    /\ svc.items[1] > svc.items[2]
    /\ svc.attempts = Len(svc.items)
    /\ svc.currentItems = <<>>

\* C28: a saved item that is reopened carries the scene and the prompt context
\* of the original, and the edit instruction issued on it produces an
\* Image-Edit request with the parameters, media type included, that the same
\* instruction produces on the original item, generated or uploaded.
C28_SavedItemRoundTrip ==
    /\ svc.reopened # NoItem =>
          /\ svc.reopened.src = svc.original.src
          /\ svc.reopened.context = svc.original.context
    /\ svc.reopenedRequest # NoRequest => svc.reopenedRequest = RequestFor(svc.original)

----------------------------------------------------------------------------
(* Busy flags *)

\* C29: at any time at most one asynchronous action (regenerate, edit,
\* camera-angle generation, video generation) is in flight for a scene node.
C29_OneActionPerNode == Cardinality(svc.inFlight) <= 1

----------------------------------------------------------------------------
(* Retry Policy and Error Normalizer together *)

\* the texts by which the normaliser reports quota exhaustion or an
\* unavailable or overloaded model
TransientReports ==
    {"You've exceeded your quota.", "Quota exceeded. ",
     "The model is temporarily unavailable or overloaded."}

\* C30: a failure that is shown as quota exhaustion or as a temporarily
\* unavailable or overloaded model has been retried: the call was invoked
\* maxRetries times before the message was surfaced.
C30_ReportedTransientWasRetried ==
    (svc.pc = "shown" /\ svc.shown.text \in TransientReports) => svc.attempt = maxRetries
----------------------------------------------------------------------------
Requested == {svc.angleNames[j] : j \in DOMAIN svc.angleNames}

PlacementCalls == {c \in DOMAIN svc.calls : svc.calls[c] = "placement"}

\* C31: generateCameraAnglesFromImage issues the placement-reasoning call at
\* most once per invocation, only when an angle other than 'front' is
\* requested, and with exactly the requested angles other than 'front'; a
\* request for 'front' alone issues no placement call, and the edit for
\* 'front' always uses the fixed instruction, never one the analysis returned,
\* and 'front' is never skipped for want of an instruction.
C31_PlacementCallOnlyForNonFront ==
    /\ Cardinality(PlacementCalls) <= 1
    /\ PlacementCalls # {} => /\ Requested \ {"front"} # {}
                              /\ svc.analyzed = Requested \ {"front"}
    /\ Requested = {"front"} => PlacementCalls = {} /\ svc.analyzed = {}
    /\ svc.frontEdit \in {"none", "canned"}
    /\ \A j \in DOMAIN svc.scenes :
          svc.scenes[j].angle = "front" => svc.scenes[j].error # NoPrompt("front")
    /\ svc.pc \in {"resolved", "done"} /\ "front" \in Requested => AngleEdited("front")

\* the analysis returned its own front instruction, and the front edit was
\* still made with the fixed one
C31_Witness ==
    /\ svc.pc = "resolved"
    /\ Len(svc.angleNames) = NumAngles
    /\ Cardinality(PlacementCalls) = 1
    /\ svc.analyzed = {"back", "side"}
    /\ svc.cameraPrompts = Angles
    /\ svc.frontEdit = "canned"

----------------------------------------------------------------------------
\* the index after the contiguous block of the children of scene i
AfterChildren(i) ==
    i + 1 + Cardinality({c \in Indices : /\ c > i
                                         /\ \A d \in (i + 1)..c : imageSet[d + 1].par = i})

\* index, after one node has been inserted at the index at, of the old index i
IndexAfterInsert(at, i) == IF i < at THEN i ELSE i + 1

\* C32: in a well-formed tree, extend-from-last-frame on scene i inserts
\* exactly one node with parent reference i and a fresh idle VideoState
\* immediately after the contiguous block of i's children, leaves scene i's
\* VideoState unchanged, and the parent reference of every other node
\* designates the same node as before the insertion.
C32_ExtendInsertsOneChild ==
    [][(/\ last'.kind = "extend"
        /\ C1_LengthsAligned /\ C2_ParentIsExistingRoot /\ C3_ChildrenContiguous)
        => /\ InsertedAt(AfterChildren(ExtendedIndex), ExtendedIndex, 1)
           /\ videoStates'[ExtendedIndex + 1] = videoStates[ExtendedIndex + 1]
           /\ \A i \in Indices :
                imageSet[i + 1].par # NoParent =>
                    imageSet'[IndexAfterInsert(AfterChildren(ExtendedIndex), i) + 1].par
                        = IndexAfterInsert(AfterChildren(ExtendedIndex), imageSet[i + 1].par)]_vars

----------------------------------------------------------------------------
(* Speech Service *)

Detected == {svc.detectedSpeakers[j] : j \in DOMAIN svc.detectedSpeakers}

\* C33: generateSpeech issues no remote call and returns null for an empty
\* script; otherwise it issues exactly one synthesis call, multi-speaker if
\* and only if more than one distinct known speaker was detected, with the
\* i-th detected speaker (from 0) given voice i mod 5 of the pool; the
\* single-speaker voice is Kore when the sole speaker is Narrator or none was
\* detected, and Puck when it is a named character.
C33_OneSynthesisCall ==
    /\ svc.script = "empty" =>
        /\ svc.calls = 0
        /\ svc.pc \in {"entry", "returned"}
        /\ svc.pc = "returned" => svc.result = "null"
    /\ svc.pc \in {"entry", "scan", "detected"} => svc.calls = 0
    /\ (svc.script = "text" /\ svc.pc \in {"tts", "returned", "rejected"}) =>
        /\ svc.calls = 1
        /\ (svc.call.mode = "multi") = (Cardinality(Detected) > 1)
        /\ svc.call.mode \in {"multi", "single"}
        /\ svc.call.mode = "multi" =>
            /\ Len(svc.call.voices) = Len(svc.detectedSpeakers)
            /\ \A i \in 0..(Len(svc.detectedSpeakers) - 1) :
                /\ svc.call.voices[i + 1].speaker = svc.detectedSpeakers[i + 1]
                /\ svc.call.voices[i + 1].voiceName = availableVoices[(i % 5) + 1]
        /\ svc.call.mode = "single" =>
            svc.call.voices =
                <<IF Detected \subseteq {"Narrator"} THEN "Kore" ELSE "Puck">>

\* six speakers were detected, so the sixth has the first voice again
C33_Witness ==
    /\ svc.pc = "returned"
    /\ svc.result = "audio"
    /\ Len(svc.detectedSpeakers) = 6
    /\ svc.call.voices[6].voiceName = "Kore"
    /\ svc.call.voices[5].voiceName = "Fenrir"

\* C34: for every script and roster the set of speakers generateSpeech detects
\* is the set found by scanning each line on its own for a leading Name:
\* marker that matches Narrator or a character name without regard to case;
\* a marker at the start of a line is detected whatever the line before holds.
C34_DetectionIsPerLine ==
    svc.pc \in {"detected", "tts", "returned", "rejected"} => Detected = svc.speakers

----------------------------------------------------------------------------
(* Prompt Builder *)

BlockOrder ==
    <<"characterIntegrityInstruction", "racialMandate", "finalCharacterBlock",
      "visualReferencePreamble", "SCENE", "IMAGE_STYLE_GUIDE", "ASPECT RATIO", "GENRE">>

BlockRank(name) == CHOOSE r \in DOMAIN BlockOrder : BlockOrder[r] = name

HasBlock(name) == \E j \in DOMAIN svc.text : svc.text[j].block = name

BoundCharacters == {id \in DOMAIN svc.all : svc.all[id]}

\* C35: in every image-generation prompt the blocks stand in the order
\* integration instruction, mandatory demographic block, character list,
\* continuity block, scene text, style, aspect ratio, genre; the integration
\* instruction is there only if a character has a reference image, the
\* demographic block always, the continuity block only if a reference
\* description exists; the character whose reference image is sent is not in
\* the character list; and the aspect-ratio footer is there if and only if the
\* image-conditioned call is the one made.
C35_PromptBlockOrder ==
    svc.pc \in {"call", "called"} =>
        /\ \A a, b \in DOMAIN svc.text :
              a < b => BlockRank(svc.text[a].block) < BlockRank(svc.text[b].block)
        /\ HasBlock("racialMandate") /\ HasBlock("SCENE") /\ HasBlock("IMAGE_STYLE_GUIDE")
        /\ HasBlock("characterIntegrityInstruction") => BoundCharacters # {}
        /\ HasBlock("characterIntegrityInstruction") = (svc.inlineImage # NoChar)
        /\ HasBlock("visualReferencePreamble") => svc.referenceDescription # ""
        /\ \A j \in DOMAIN svc.text : svc.inlineImage \notin svc.text[j].ids
        /\ svc.pc = "called" =>
              HasBlock("ASPECT RATIO") = (svc.call = "generateContent")

\* all eight blocks, with the second character alone in the character list
C35_Witness ==
    /\ svc.pc = "called"
    /\ Len(svc.text) = 8
    /\ svc.inlineImage = 1
    /\ svc.forPrompt = {1, 2}
    /\ svc.text[3].ids = {2}

----------------------------------------------------------------------------
(* Undo *)

\* C36: for a scene that has an image, an edit, whether it returned a new
\* image or was rejected with an error, followed by undo restores exactly the
\* image the scene had before the edit and clears the undo slot; one level of
\* undo is kept, so a second undo changes nothing.
C36_EditThenUndoRestores ==
    /\ [][onUndoEdit => /\ svc.sceneToEdit # NullSrc
                        /\ svc'.src = svc.sceneToEdit
                        /\ svc'.previousSrc = NullSrc]_vars
    /\ [][svc'.isEditing /\ ~svc.isEditing
            => svc'.sceneToEdit = svc.src /\ svc.src # NullSrc]_vars
    /\ [](handleUndoEdit(handleUndoEdit(svc)) = handleUndoEdit(svc))

\* the undo has put back the first image after an edit had replaced it
C36_Witness ==
    /\ svc.src = ImageSrc
    /\ svc.sceneToEdit = ImageSrc
    /\ svc.previousSrc = NullSrc
    /\ svc.images = 2
    /\ svc.inFlight = {}

----------------------------------------------------------------------------
(* Asynchronous actions and index shifts *)

\* the node at index i carries the busy marker of an action of this kind
MarkedLoading(i) == VideoDefined(videoStates, i) /\ videoStates[i + 1].status = "loading"
MarkedGeneratingAngles(i) == Defined(imageSet, i) /\ imageSet[i + 1].isGeneratingAngles

\* C37: the result of an asynchronous action in flight is applied to the node
\* the action was started for, which carries the action's busy marker until
\* the action settles, also when scenes have been inserted or deleted
\* meanwhile: a video result goes to a node whose video is loading, a
\* camera-angle result to a node that is generating angles.
C37_ResultAppliedToStartedNode ==
    [][\A op \in PendingOps :
        op.live =>
            /\ (VideoResolved(op) \/ VideoRejected(op)) => MarkedLoading(op.idx)
            /\ (AnglesRejected(op)
                    \/ \E failed \in FailureChoices(op.k) : AnglesResolved(op, failed))
                => MarkedGeneratingAngles(op.idx)]_vars

Busy == \E i \in Indices : MarkedLoading(i) \/ MarkedGeneratingAngles(i)

\* C38: when every remote call eventually returns, every busy marker set when
\* an action starts is eventually cleared on the node it was set on, whatever
\* insertions and deletions happen meanwhile: no surviving node stays busy for
\* ever, so a state with a busy node is followed by one without.
C38_BusyEventuallyCleared == Busy ~> ~Busy

----------------------------------------------------------------------------
(* Saved items: the persisted store and the in-memory list *)

\* C39: after every unsave or load the persisted store holds exactly the items
\* of the in-memory saved list: unsaving the last remaining item leaves the
\* store empty, and an item evicted from the store on a quota failure is no
\* longer in the in-memory list.
C39_StoreMatchesSavedList ==
    [][(svc.pc # "idle" /\ svc'.pc = "idle")
        => BagOf(svc'.store) = BagOf(svc'.savedItems)]_vars

----------------------------------------------------------------------------
\* C40: the key of a saved item designates the same scene for as long as the
\* item stays saved: after scenes have been inserted or deleted, the saved
\* marker and the save toggle of each scene refer to the item that was
\* created from that scene and to no other.
C40_SavedKeyFollowsScene ==
    \A index \in 0..(Len(svc.imageSet) - 1) : \A item \in svc.savedItems :
        (item.id = index) = (item.scene = svc.imageSet[index + 1].id)

====
